---- MODULE Spec2Model ----
(***************************************************************************)
(* kkbot: the agent loop (agent.py), the LLM response normalisation        *)
(* (llm.py), the session store (session.py) and the event dispatch of the  *)
(* chat transport (feishu.py), as a state machine.                         *)
(*                                                                         *)
(* Spec        the event loop: concurrent turns of AgentLoop.run           *)
(* SpecSession Session._load / get_history / save_turn on storage files    *)
(* SpecTool    _run_tool on every tool name and argument payload           *)
(* SpecChat    LLMProvider.chat on every provider outcome                  *)
(***************************************************************************)
EXTENDS Integers, Sequences, FiniteSets, TLC

\* ------------------------------------------------------------------ bounds
\* inbound messages (one turn of AgentLoop.run each)
NTurns == 2
\* largest configured agent.max_tool_rounds
MaxRounds == 2
\* SpecCache: calls of LLMProvider.chat on one message list
MaxCacheCalls == 2
\* SpecFeishu: events delivered to FeishuBot._handle
MaxDeliveries == 4
\* SpecFeishu: the size _handle trims _dedup to (1000 in feishu.py)
DedupCap == 2
\* SpecFair: largest configured agent.max_tool_rounds
MaxFairRounds == 1
\* SpecSession: turns in a stored session file, the largest stored
\* watermark, and the calls of save_turn
MaxStoredTurns == 2
MaxWatermark == 3
MaxSaves == 2
\* SpecTool: calls of _run_tool in a row
MaxToolRuns == 2
\* SpecChat: tool calls in one provider response, and calls of chat
MaxRawCalls == 2
MaxChats == 1
\* SpecSession: calls of SessionManager.get
MaxGets == 2
\* SpecMemory: calls of MemoryStore.append and of the save_memory tool
MaxAppends == 3

Turns == 1 .. NTurns

\* ------------------------------------------------------------ python values
\* a text is a sequence of characters; a chunk whose inside nothing reads
\* ("Error: <e>", a prompt) stands as one element

\* Python's None where a string or a text is expected
NoneStr == "<None>"
NoneText == <<"<None>">>

\* `x or d` on an optional string, and on an optional text
StrOr(x, d) == IF x = NoneStr \/ x = "" THEN d ELSE x
TextOr(x, d) == IF x = NoneText \/ x = <<>> THEN d ELSE x

\* characters of the texts the tools parse
Digits == {"7"}
Space == {" ", "\n"}

\* str.strip(): leading and trailing whitespace removed
RECURSIVE lstrip(_)
lstrip(s) == IF s # <<>> /\ Head(s) \in Space THEN lstrip(Tail(s)) ELSE s

RECURSIVE rstrip(_)
rstrip(s) ==
    IF s # <<>> /\ s[Len(s)] \in Space THEN rstrip(SubSeq(s, 1, Len(s) - 1)) ELSE s

strip(s) == lstrip(rstrip(s))

\* the texts int() accepts: optional sign, then digits, whitespace around
IsIntText(s) ==
    LET t == strip(s)
        u == IF t # <<>> /\ Head(t) \in {"-", "+"} THEN Tail(t) ELSE t
    IN  u # <<>> /\ \A j \in 1 .. Len(u) : u[j] \in Digits

\* ------------------------------------------------------------- JSON values
\* a value of an argument mapping; k = "missing" is an absent key
\* (i: the number, s: the string, l: the items of a list)
Val(k, i, s, l) == [k |-> k, i |-> i, s |-> s, l |-> l]
Missing == Val("missing", 0, <<>>, <<>>)
JNull == Val("null", 0, <<>>, <<>>)
JInt(n) == Val("int", n, <<>>, <<>>)
JStr(s) == Val("str", 0, s, <<>>)
JList(l) == Val("list", 0, <<>>, l)

\* an item of a `patches` list: an object with old and new (each a string,
\* absent, or of another type), or not an object
Item(isdict, ok, old, nk, new) ==
    [isdict |-> isdict, ok |-> ok, old |-> old, nk |-> nk, new |-> new]
Patch(old, new) == Item(TRUE, "str", old, "str", new)
NotAnObject == Item(FALSE, "missing", <<>>, "missing", <<>>)

\* the keys _run_tool reads, and those of the edit_file of tools.py
ArgKeys == {"cmd", "timeout", "path", "content", "patches", "query", "count", "url",
            "max_chars", "old", "new"}

\* a decoded JSON document: an object (k = "dict", its items in d) or not
NoItems == [a \in ArgKeys |-> Missing]
JObject(d) == [k |-> "dict", d |-> d]
JOther(k) == [k |-> k, d |-> NoItems]
EmptyDict == JObject(NoItems)
With(key, v) == JObject([NoItems EXCEPT ![key] = v])

\* JSON text: form "none" (None), "empty" (""), "malformed", or "json" (well
\* formed, encoding val)
Text(form, val) == [form |-> form, val |-> val]
json_dumps(v) == Text("json", v)

\* dict.get(key, default) on an argument mapping
Get(args, key, default) == IF args.d[key].k = "missing" THEN default ELSE args.d[key]

\* ------------------------------------------------------------ llm.py: chat
\* what the completions request produces: an exception, or a response with
\* nchoices choices whose first has this message and finish_reason
Raw(exc, nchoices, content, tool_calls, finish_reason) ==
    [exc |-> exc, nchoices |-> nchoices, content |-> content,
     tool_calls |-> tool_calls, finish_reason |-> finish_reason]

\* a tool call as the provider sends it: arguments is JSON text
RawCall(id, name, arguments) == [id |-> id, name |-> name, arguments |-> arguments]

ToolCall(id, name, arguments) == [id |-> id, name |-> name, arguments |-> arguments]

LLMResponse(content, tool_calls, finish_reason) ==
    [raised |-> FALSE, content |-> content, tool_calls |-> tool_calls,
     finish_reason |-> finish_reason]

\* an exception leaving chat
ChatRaises == [raised |-> TRUE, content |-> <<>>, tool_calls |-> <<>>, finish_reason |-> ""]

has_tool_calls(resp) == resp.tool_calls # <<>>

\* json.loads(tc.function.arguments or "{}") under except json.JSONDecodeError
\* (a TypeError, for arguments that is no string, is not caught)
LoadsRaises(text) == text.form = "nonstr"

DecodeArguments(text) ==
    CASE text.form \in {"none", "empty"} -> EmptyDict
      [] text.form = "malformed" -> EmptyDict
      [] OTHER -> text.val

chat(raw) ==
    IF raw.exc THEN LLMResponse(<<"Error: <e>">>, <<>>, "error")
    ELSE IF raw.nchoices = 0 THEN ChatRaises
    ELSE IF \E j \in 1 .. Len(raw.tool_calls) : LoadsRaises(raw.tool_calls[j].arguments)
    THEN ChatRaises
    ELSE LLMResponse(
            TextOr(raw.content, <<>>),
            [j \in 1 .. Len(raw.tool_calls) |->
                ToolCall(raw.tool_calls[j].id, raw.tool_calls[j].name,
                         DecodeArguments(raw.tool_calls[j].arguments))],
            StrOr(raw.finish_reason, "stop"))

\* --------------------------------------------------- llm.py: apply_cache
\* The dicts and lists of Python are objects: a heap is the sequence of the
\* objects made so far and a reference is a place in it. A message object has
\* a role and a content that is a str ("str"), a list of parts ("list", its
\* parts are references) or no content key ("missing"); a part object
\* ("part") has a type, a text and may carry cache_control.
Obj(role, ctype, text, parts, type, cache_control) ==
    [role |-> role, ctype |-> ctype, text |-> text, parts |-> parts, type |-> type,
     cache_control |-> cache_control]
StrMessage(role, text) == Obj(role, "str", text, <<>>, "", FALSE)
ListMessage(role, parts) == Obj(role, "list", <<>>, parts, "", FALSE)
Part(type, text, cache_control) == Obj("", "part", text, <<>>, type, cache_control)

\* a _mark_cache that works on the message it is given, without `dict(msg)`
\* and `[dict(c) for c in content]`
_mark_cacheInPlace(h, ref) ==
    LET msg == h[ref]
    IN  IF msg.ctype \in {"str", "missing"}
        THEN [heap |-> [Append(h, Part("text", msg.text, TRUE))
                            EXCEPT ![ref] = ListMessage(msg.role, <<Len(h) + 1>>)],
              ref |-> ref]
        ELSE IF msg.ctype = "list" /\ msg.parts # <<>>
        THEN [heap |-> [h EXCEPT ![msg.parts[Len(msg.parts)]].cache_control = TRUE],
              ref |-> ref]
        ELSE [heap |-> h, ref |-> ref]

\* _mark_cache: the heap after it and the reference it returns. The message
\* is copied; a str content becomes a one-part list with cache_control, the
\* parts of a non-empty list content are copied and the last copy gets
\* cache_control
_mark_cache(h, ref) ==
    LET msg == h[ref]
        n == Len(msg.parts)
    IN  IF msg.ctype \in {"str", "missing"}
        THEN [heap |-> h \o <<Part("text", msg.text, TRUE),
                               ListMessage(msg.role, <<Len(h) + 1>>)>>,
              ref |-> Len(h) + 2]
        ELSE IF msg.ctype = "list" /\ msg.parts # <<>>
        THEN [heap |-> h \o [i \in 1..n |->
                                IF i = n THEN [h[msg.parts[i]] EXCEPT !.cache_control = TRUE]
                                ELSE h[msg.parts[i]]]
                         \o <<ListMessage(msg.role, [i \in 1..n |-> Len(h) + i])>>,
              ref |-> Len(h) + n + 1]
        ELSE [heap |-> Append(h, msg), ref |-> Len(h) + 1]

\* apply_cache's loop over cache_indices from the k-th on; result is the copy
\* `list(messages)`
RECURSIVE apply_cache_from(_, _, _, _)
apply_cache_from(h, result, cache_indices, k) ==
    IF k > Len(cache_indices) THEN [heap |-> h, result |-> result]
    ELSE LET i == cache_indices[k]
         IN  IF 0 <= i /\ i < Len(result)
             THEN LET marked == _mark_cache(h, result[i + 1])
                  IN  apply_cache_from(marked.heap, [result EXCEPT ![i + 1] = marked.ref],
                                       cache_indices, k + 1)
             ELSE apply_cache_from(h, result, cache_indices, k + 1)

apply_cache(h, messages, cache_indices) == apply_cache_from(h, messages, cache_indices, 1)

\* chat's `msgs = apply_cache(messages, cache_indices) if cache_indices else messages`
ChatMsgs(h, messages, cache_indices) ==
    IF cache_indices # <<>> THEN apply_cache(h, messages, cache_indices)
    ELSE [heap |-> h, result |-> messages]

\* what a reference stands for: the message with its parts in place
Deref(h, ref) ==
    [role |-> h[ref].role, ctype |-> h[ref].ctype, text |-> h[ref].text,
     parts |-> [i \in 1..Len(h[ref].parts) |-> h[h[ref].parts[i]]]]
DerefAll(h, refs) == [i \in 1..Len(refs) |-> Deref(h, refs[i])]

\* -------------------------------------------------------- session.py: memory
\* MEMORY.md: absent, or its text
NoFile == [exists |-> FALSE, text |-> <<>>]
File(text) == [exists |-> TRUE, text |-> text]

MemoryLoad(mem) == IF mem.exists THEN mem.text ELSE <<>>

\* the characters str.encode("utf-8") rejects: the lone surrogates, which
\* json.loads yields for an escape like \ud800 (U+D800 stands for them)
Surrogates == {"<U+D800>"}
Encodable(s) == \A j \in 1 .. Len(s) : s[j] \notin Surrogates

\* MemoryStore.write: write_text opens the file for writing, which empties
\* it, and then encodes the text; when that raises the file stays empty
MemoryWrite(content) == IF Encodable(content) THEN File(content) ELSE File(<<>>)

\* the text MemoryStore.append writes
AppendedBlob(mem, content) ==
    LET existing == rstrip(MemoryLoad(mem))
    IN  (IF existing # <<>> THEN existing \o <<"\n", "\n">> \o strip(content)
         ELSE strip(content)) \o <<"\n">>

\* MemoryStore.append: the blob after it, and whether it raises
MemoryAppend(mem, content) == MemoryWrite(AppendedBlob(mem, content))
MemoryAppendRaises(mem, content) == ~Encodable(AppendedBlob(mem, content))

\* ------------------------------------------------------ agent.py: the tools
\* str.count(old): occurrences that do not overlap, from the left
StartsWith(text, old) == Len(old) <= Len(text) /\ SubSeq(text, 1, Len(old)) = old

RECURSIVE count(_, _)
count(text, old) ==
    IF old = <<>> THEN Len(text) + 1
    ELSE IF Len(text) < Len(old) THEN 0
    ELSE IF StartsWith(text, old)
         THEN 1 + count(SubSeq(text, Len(old) + 1, Len(text)), old)
         ELSE count(Tail(text), old)

\* str.replace(old, new, 1)
RECURSIVE replace(_, _, _)
replace(text, old, new) ==
    IF old = <<>> THEN new \o text
    ELSE IF Len(text) < Len(old) THEN text
    ELSE IF StartsWith(text, old) THEN new \o SubSeq(text, Len(old) + 1, Len(text))
    ELSE <<Head(text)>> \o replace(Tail(text), old, new)

\* the loop of _patch_file over patches[i ..], from the text and the errors
\* so far; raised when an item, its old or its new has no such method
PatchState(raised, text, errors) == [raised |-> raised, text |-> text, errors |-> errors]

RECURSIVE PatchLoop(_, _, _)
PatchLoop(patches, i, st) ==
    IF i > Len(patches) \/ st.raised THEN st
    ELSE LET p == patches[i]
             old == IF p.ok = "missing" THEN <<>> ELSE p.old
             new == IF p.nk = "missing" THEN <<>> ELSE p.new
             n == count(st.text, old)
         IN  IF ~p.isdict \/ p.ok = "other" THEN PatchState(TRUE, st.text, st.errors)
             ELSE IF n = 0
             THEN PatchLoop(patches, i + 1,
                    PatchState(FALSE, st.text, Append(st.errors, [i |-> i - 1, count |-> 0])))
             ELSE IF n > 1
             THEN PatchLoop(patches, i + 1,
                    PatchState(FALSE, st.text, Append(st.errors, [i |-> i - 1, count |-> n])))
             ELSE IF p.nk = "other" THEN PatchState(TRUE, st.text, st.errors)
             ELSE PatchLoop(patches, i + 1,
                    PatchState(FALSE, replace(st.text, old, new), st.errors))

\* the line of the result for one failing patch (without the backquotes of
\* the source's text)
ErrorText(e) ==
    IF e.count = 0 THEN "Patch " \o ToString(e.i) \o ": old not found"
    ELSE "Patch " \o ToString(e.i) \o ": old matches " \o ToString(e.count)
         \o " times (must be unique)"

\* the outcome of a tool: an exception, or (result, should_restart), with the
\* memory blob and the workspace file it leaves
Outcome(raised, result, restart, mem, file) ==
    [raised |-> raised, result |-> result, restart |-> restart, mem |-> mem, file |-> file]

\* _patch_file(path, patches): patches is the value of the `patches` key
\* (io: whether reading and writing the file succeed)
_patch_file(pathv, patches, io, mem, file) ==
    IF ~file.exists \/ pathv.s = <<>> \/ io = "read_err"
    THEN Outcome(FALSE, <<"Error reading file: <e>">>, FALSE, mem, file)
    ELSE IF patches.k \in {"null", "int"} THEN Outcome(TRUE, <<>>, FALSE, mem, file)
    ELSE LET items == IF patches.k = "str"
                      THEN [j \in 1 .. Len(patches.s) |-> NotAnObject]
                      ELSE patches.l
             st == PatchLoop(items, 1, PatchState(FALSE, file.text, <<>>))
         IN  IF st.raised THEN Outcome(TRUE, <<>>, FALSE, mem, file)
             ELSE IF st.errors # <<>>
             THEN Outcome(FALSE,
                          <<"Patch failed:">> \o [j \in 1 .. Len(st.errors) |-> ErrorText(st.errors[j])],
                          FALSE, mem, file)
             ELSE IF io = "write_err"
             THEN Outcome(FALSE, <<"Error writing file: <e>">>, FALSE, mem, file)
             ELSE Outcome(FALSE, <<"Patched " \o ToString(Len(items)) \o " location(s)">>,
                          FALSE, mem, File(st.text))

\* what the world does to a tool: the subprocess, file I/O, the HTTP request,
\* and whether a Brave API key is configured
Env(proc, io, http, key) == [proc |-> proc, io |-> io, http |-> http, key |-> key]

\* int(x) raises: a text that is no number, or a value that is neither
IntRaises(v) == IF v.k = "str" THEN ~IsIntText(v.s) ELSE v.k # "int"

\* _run_tool(name, args, ...) with the world's answer env
_run_tool(name, args, env, mem, file) ==
    LET Ok(result) == Outcome(FALSE, result, FALSE, mem, file)
        Raises == Outcome(TRUE, <<>>, FALSE, mem, file)
        isdict == args.k = "dict"
    IN
    CASE name = "shell" ->
            IF ~isdict \/ IntRaises(Get(args, "timeout", JInt(30))) THEN Raises
            ELSE IF Get(args, "cmd", JStr(<<>>)).k \in {"null", "int"} THEN Ok(<<"Error: <e>">>)
            ELSE CASE env.proc = "ok" -> Ok(<<"<output>">>)
                   [] env.proc = "empty" -> Ok(<<"(no output)">>)
                   [] env.proc = "timeout" -> Ok(<<"Error: timed out after <n>s">>)
                   [] OTHER -> Ok(<<"Error: <e>">>)
      [] name = "read_file" ->
            IF ~isdict \/ Get(args, "path", JStr(<<>>)).k # "str" THEN Ok(<<"Error: <e>">>)
            ELSE IF ~file.exists \/ Get(args, "path", JStr(<<>>)).s = <<>> \/ env.io # "ok"
            THEN Ok(<<"Error: <e>">>)
            ELSE Ok(file.text)
      [] name = "write_file" ->
            IF ~isdict \/ Get(args, "path", JStr(<<>>)).k # "str" THEN Raises
            ELSE IF Get(args, "path", JStr(<<>>)).s = <<>> \/ env.io # "ok"
                    \/ Get(args, "content", JStr(<<>>)).k # "str"
            THEN Ok(<<"Error: <e>">>)
            ELSE Outcome(FALSE, <<"Written to <p>">>, FALSE, mem,
                         File(Get(args, "content", JStr(<<>>)).s))
      [] name = "patch_file" ->
            IF ~isdict \/ Get(args, "path", JStr(<<>>)).k # "str" THEN Raises
            ELSE _patch_file(Get(args, "path", JStr(<<>>)),
                             Get(args, "patches", JList(<<>>)), env.io, mem, file)
      [] name = "save_memory" ->
            IF ~isdict \/ Get(args, "content", JStr(<<>>)).k # "str" THEN Raises
            ELSE IF strip(Get(args, "content", JStr(<<>>)).s) # <<>>
            THEN Outcome(MemoryAppendRaises(mem, strip(Get(args, "content", JStr(<<>>)).s)),
                         IF MemoryAppendRaises(mem, strip(Get(args, "content", JStr(<<>>)).s))
                         THEN <<>> ELSE <<"Memory saved.">>,
                         FALSE,
                         MemoryAppend(mem, strip(Get(args, "content", JStr(<<>>)).s)), file)
            ELSE Ok(<<"Memory saved.">>)
      [] name = "recall_memory" ->
            IF MemoryLoad(mem) # <<>> THEN Ok(MemoryLoad(mem)) ELSE Ok(<<"(no memory yet)">>)
      [] name = "restart_self" -> Outcome(FALSE, <<"Restarting now...">>, TRUE, mem, file)
      [] name = "web_search" ->
            IF ~isdict THEN Raises
            ELSE IF ~env.key THEN Ok(<<"Error: Brave Search API key not configured.">>)
            ELSE IF Get(args, "count", JInt(5)).k # "int" THEN Raises
            ELSE IF env.http = "ok" THEN Ok(<<"Search results for: <q>">>)
            ELSE IF env.http = "empty" THEN Ok(<<"No results for: <q>">>)
            ELSE Ok(<<"Error: <e>">>)
      [] name = "web_fetch" ->
            IF ~isdict THEN Raises
            ELSE IF env.http = "ok" /\ Get(args, "url", JStr(<<>>)).k = "str"
                    /\ Get(args, "max_chars", JInt(8000)).k = "int"
            THEN Ok(<<"<page text>">>)
            ELSE Ok(<<"Error: <e>">>)
      [] OTHER -> Ok(<<"Unknown tool: ", name>>)

\* ------------------------------------------------------ tools.py: edit_file
\* _edit_file(path, old, new): old and new are the values of the keys
_edit_file(pathv, old, new, io, mem, file) ==
    IF ~file.exists \/ pathv.s = <<>> \/ io = "read_err"
    THEN Outcome(FALSE, <<"Error reading file: <e>">>, FALSE, mem, file)
    ELSE IF old.k # "str" THEN Outcome(TRUE, <<>>, FALSE, mem, file)
    ELSE IF count(file.text, old.s) = 0
    THEN Outcome(FALSE, <<"Error: old not found in file">>, FALSE, mem, file)
    ELSE IF count(file.text, old.s) > 1
    THEN Outcome(FALSE,
                 <<"Error: old matches " \o ToString(count(file.text, old.s))
                   \o " times (must be unique)">>, FALSE, mem, file)
    ELSE IF new.k # "str" \/ io = "write_err"
    THEN Outcome(FALSE, <<"Error writing file: <e>">>, FALSE, mem, file)
    ELSE Outcome(FALSE, <<"Edited <p>">>, FALSE, mem, File(replace(file.text, old.s, new.s)))

\* run_tool("edit_file", args) of tools.py
run_tool_edit_file(args, env, mem, file) ==
    IF args.k # "dict" \/ Get(args, "path", JStr(<<>>)).k # "str"
    THEN Outcome(TRUE, <<>>, FALSE, mem, file)
    ELSE _edit_file(Get(args, "path", JStr(<<>>)), Get(args, "old", JStr(<<>>)),
                    Get(args, "new", JStr(<<>>)), env.io, mem, file)

\* --------------------------------------------------- session.py: the session
\* a message: a dict with the keys in `keys` (the other fields are unset)
Msg(role, content, keys, tool_calls, tool_call_id, name, ts) ==
    [role |-> role, content |-> content, keys |-> keys, tool_calls |-> tool_calls,
     tool_call_id |-> tool_call_id, name |-> name, ts |-> ts]

UserMsg(content) == Msg("user", content, {"role", "content"}, <<>>, "", "", 0)
SystemMsg(content) == Msg("system", content, {"role", "content"}, <<>>, "", "", 0)
AsstMsg(content) == Msg("assistant", content, {"role", "content"}, <<>>, "", "", 0)
AsstCalls(content, tool_calls) ==
    Msg("assistant", content, {"role", "content", "tool_calls"}, tool_calls, "", "", 0)
\* a tool message that carries the tool name as its tool_call_id and the id
\* as its name
ToolMsgSwapped(tool_call_id, name, content) ==
    Msg("tool", content, {"role", "tool_call_id", "name", "content"}, <<>>,
        name, tool_call_id, 0)

ToolMsg(tool_call_id, name, content) ==
    Msg("tool", content, {"role", "tool_call_id", "name", "content"}, <<>>,
        tool_call_id, name, 0)

\* Session._KEEP
_KEEP == {"role", "content", "tool_calls", "tool_call_id", "name"}

\* {k: v for k, v in m.items() if k in _KEEP}
Keep(m) ==
    [m EXCEPT !.keys = m.keys \cap _KEEP,
              !.ts = IF "ts" \in _KEEP THEN m.ts ELSE 0]

\* {**m, "ts": ts}
Stamp(m, ts) == [m EXCEPT !.keys = m.keys \cup {"ts"}, !.ts = ts]

\* a line of a session file: a message, the meta record of the watermark, or
\* a line json.loads rejects
MsgLine(m) == [type |-> "msg", msg |-> m, last_consolidated |-> 0]
MetaLine(n) == [type |-> "meta", msg |-> UserMsg(<<>>), last_consolidated |-> n]
BadLine == [type |-> "bad", msg |-> UserMsg(<<>>), last_consolidated |-> 0]

\* a Session object (of a key that SessionManager has not created: NoSession)
Session(messages, last_consolidated) ==
    [created |-> TRUE, messages |-> messages, last_consolidated |-> last_consolidated]
NoSession == [created |-> FALSE, messages |-> <<>>, last_consolidated |-> 0]

\* the characters at which str.splitlines breaks a line and which json.dumps
\* with ensure_ascii=False writes as they are (U+2028 stands for them)
LineBreaks == {"<U+2028>"}

\* a line that _load cannot parse: a line that is no JSON, or a message
\* line that read_text().splitlines() cuts inside its content string, the
\* first piece being an unterminated JSON text
Rejected(line) ==
    \/ line.type = "bad"
    \/ /\ line.type = "msg"
       /\ \E j \in 1 .. Len(line.msg.content) : line.msg.content[j] \in LineBreaks

\* Session._load over lines[i ..]: stops at the first line that raises
RECURSIVE LoadLines(_, _, _)
LoadLines(lines, i, sess) ==
    IF i > Len(lines) \/ Rejected(lines[i]) THEN sess
    ELSE IF lines[i].type = "meta"
    THEN LoadLines(lines, i + 1, Session(sess.messages, lines[i].last_consolidated))
    ELSE LoadLines(lines, i + 1,
                   Session(Append(sess.messages, lines[i].msg), sess.last_consolidated))

\* Session.__init__: empty, then _load of the file's lines
_load(lines) == LoadLines(lines, 1, Session(<<>>, 0))

\* msgs[n:]
From(msgs, n) == SubSeq(msgs, n + 1, Len(msgs))

\* the index of the first message of role user, 0 when there is none
FirstUser(msgs) ==
    IF \E j \in 1 .. Len(msgs) : msgs[j].role = "user"
    THEN CHOOSE j \in 1 .. Len(msgs) :
            /\ msgs[j].role = "user"
            /\ \A h \in 1 .. j - 1 : msgs[h].role # "user"
    ELSE 0

get_history(sess) ==
    LET msgs == From(sess.messages, sess.last_consolidated)
        cut == IF FirstUser(msgs) = 0 THEN msgs ELSE From(msgs, FirstUser(msgs) - 1)
    IN  [j \in 1 .. Len(cut) |-> Keep(cut[j])]

\* a save_turn that writes the lines of a turn last message first
SaveLinesReversed(lines, msgs, ts) ==
    lines \o [j \in 1 .. Len(msgs) |-> [type |-> "msg", last_consolidated |-> 0,
                                        msg |-> [msgs[Len(msgs) + 1 - j] EXCEPT
                                                    !.keys = @ \cup {"ts"}, !.ts = ts]]]

\* a save_turn that keeps in memory the messages of the last turn only
SaveMessagesLastTurn(messages, msgs, ts) ==
    [j \in 1 .. Len(msgs) |-> [msgs[j] EXCEPT !.keys = @ \cup {"ts"}, !.ts = ts]]

\* a save_turn that is suspended after its first line: the line is written
\* before the last line that the file held
SaveLinesSuspended(lines, msgs, ts) ==
    LET new == [j \in 1 .. Len(msgs) |-> [type |-> "msg", last_consolidated |-> 0,
                                          msg |-> [msgs[j] EXCEPT !.keys = @ \cup {"ts"}, !.ts = ts]]]
    IN  IF lines = <<>> \/ new = <<>> THEN lines \o new
        ELSE SubSeq(lines, 1, Len(lines) - 1) \o <<Head(new), lines[Len(lines)]>> \o Tail(new)

\* _append_line: f.write encodes the line as UTF-8 and raises on a lone
\* surrogate, which json.dumps(ensure_ascii=False) leaves as it is
LineEncodable(m) == Encodable(m.content)

\* the first message of msgs whose line cannot be written (Len(msgs) + 1: none)
FirstUnwritable(msgs) ==
    LET bad == {j \in 1 .. Len(msgs) : ~LineEncodable(msgs[j])}
    IN  IF bad = {} THEN Len(msgs) + 1 ELSE CHOOSE j \in bad : \A i \in bad : j <= i

\* save_turn raises: the exception of _append_line leaves its loop
SaveRaises(msgs) == FirstUnwritable(msgs) <= Len(msgs)

\* Session.save_turn: the session and the file's lines after it. Each message
\* is appended to self.messages and then written; at a message whose line
\* cannot be written the loop ends, the message in the list and not in the file
SaveMessages(messages, msgs, ts) ==
    LET n == IF SaveRaises(msgs) THEN FirstUnwritable(msgs) ELSE Len(msgs)
    IN  messages \o [j \in 1 .. n |-> Stamp(msgs[j], ts)]
SaveLines(lines, msgs, ts) ==
    lines \o [j \in 1 .. FirstUnwritable(msgs) - 1 |-> MsgLine(Stamp(msgs[j], ts))]

\* SessionManager.get: the characters of a key that a path cannot hold
safe(key) == [j \in 1 .. Len(key) |-> IF key[j] \in {":", "/"} THEN "_" ELSE key[j]]

\* a get that constructs a Session from the file at every call
SessionManagerGetReloading(s, lines) == [session |-> _load(lines), fresh |-> TRUE]

\* SessionManager.get(key): the Session registered for the key (s, when one
\* is registered) or a Session constructed from the file, which it registers
SessionManagerGet(s, lines) ==
    [session |-> IF s.created THEN s ELSE _load(lines), fresh |-> ~s.created]

\* the Session object of the last handle of hs (0: none was constructed)
LastObj(hs) == IF hs = <<>> THEN 0 ELSE hs[Len(hs)].obj

\* ------------------------------------------------------------------- state
VARIABLES
    max_tool_rounds,   \* Config.max_tool_rounds, as configured
    chat_id,           \* per turn: the conversation key run is called with
    pc,                \* per turn: where its coroutine is suspended
    messages,          \* per turn: run's `messages`
    cache_indices,     \* per turn: run's `cache_indices`
    turn_msgs,         \* per turn: run's `turn_msgs`
    final_reply,       \* per turn: run's `final_reply` (its return value)
    pending_restart,   \* per turn: run's `pending_restart`
    round_num,         \* per turn: run's `round_num`
    resp,              \* per turn: the LLMResponse of the round
    tc_i,              \* per turn: the index of the tool call being run
    sessions,          \* SessionManager._sessions: key -> Session
    disk,              \* the session files: path -> lines
    memory,            \* MEMORY.md
    file,              \* the file of the workspace the tools work on
    now,               \* the clock
    replies,           \* per turn: the replies on_reply was called with
    saved,             \* per turn: the messages save_turn was given
    llm_calls,         \* per turn: the calls of provider.chat
    last_resp,         \* per turn: what the last call of provider.chat returned
    exec_log,          \* the turns that replaced the process image, in order
    history,           \* SpecSession: the result of the last get_history
    tool_probe,        \* SpecTool: the last call of _run_tool and its outcome
    chat_probe,        \* SpecChat: the last provider outcome and chat's result
    mem_log,           \* SpecMemory: the blob at the start and the calls made on it
    handles,           \* SpecSession: per key, the Session objects get returned
    sent,              \* per turn: the message lists of its first and last LLM call,
                       \* and the names of the tool calls it ran
    _dedup,            \* FeishuBot._dedup: the message ids seen, oldest first
    delivered,         \* SpecFeishu: the message ids of the events delivered, in order
    inflight,          \* SpecFeishu: per message id, the _handle tasks at their await
    handled,           \* SpecFeishu: per message id, the calls of the message handler
    cache_probe        \* SpecCache: the objects of a caller of chat and its requests

loopVars == <<pc, messages, cache_indices, turn_msgs, final_reply, pending_restart,
              round_num, resp, tc_i, replies, saved, llm_calls, last_resp, exec_log>>
storeVars == <<sessions, disk, memory, file, now>>
probeVars == <<history, tool_probe, chat_probe>>
feishuVars == <<_dedup, delivered, inflight, handled>>
sideVars == <<mem_log, handles, sent, feishuVars, cache_probe>>
vars == <<max_tool_rounds, chat_id, loopVars, storeVars, probeVars, sideVars>>

\* the conversation keys: main.py's f"feishu:{chat_id}"
KeyA == <<"f", ":", "a">>
KeyB == <<"f", ":", "b">>
Keys == {KeyA, KeyB}
Paths == {safe(k) : k \in Keys}

\* ----------------------------------------------------- agent.py: AgentLoop
\* _build_system (the skills are a fixed chunk)
_build_system(mem) ==
    <<"<system_prompt>">>
    \o (IF MemoryLoad(mem) # <<>> THEN <<"\n\n## Memory\n\n">> \o MemoryLoad(mem) ELSE <<>>)
    \o <<"\n\n<skills>">>

\* the runtime-context user message of _build_messages
RuntimeContext(key, time) ==
    UserMsg(<<"[Context] Time: " \o ToString(time) \o " Chat: ">> \o key)

\* a _build_messages whose second cache index is one short
_build_messagesIndexShort(sess, key, user_content, mem, time) ==
    LET hist == get_history(sess)
    IN  [messages |->
            <<SystemMsg(_build_system(mem))>> \o hist
            \o <<RuntimeContext(key, time), UserMsg(user_content)>>,
         cache_indices |-> <<0, Len(hist)>>]

\* a _build_messages that puts the runtime context before the history
_build_messagesContextFirst(sess, key, user_content, mem, time) ==
    LET hist == get_history(sess)
    IN  [messages |->
            <<SystemMsg(_build_system(mem)),
              RuntimeContext(key, time)>>
            \o hist \o <<UserMsg(user_content)>>,
         cache_indices |-> <<0, 1>>]

\* _build_messages: (messages, cache_indices), indices counted from 0
_build_messages(sess, key, user_content, mem, time) ==
    LET hist == get_history(sess)
    IN  [messages |->
            <<SystemMsg(_build_system(mem))>> \o hist
            \o <<RuntimeContext(key, time),
                 UserMsg(user_content)>>,
         cache_indices |-> <<0, 1 + Len(hist)>>]

\* the user's message of turn t
UserContent(t) == <<"u" \o ToString(t)>>

MaxRoundsNotice == <<"Reached maximum tool call rounds.">>

\* an assistant message that leaves out the tool calls of the response
AsstContentOnly(r) == AsstMsg(r.content)

\* the assistant message run builds from a response
Asst(r) ==
    IF has_tool_calls(r)
    THEN AsstCalls(r.content,
            [j \in 1 .. Len(r.tool_calls) |->
                [id |-> r.tool_calls[j].id, type |-> "function",
                 function |-> [name |-> r.tool_calls[j].name,
                               arguments |-> json_dumps(r.tool_calls[j].arguments)]]])
    ELSE AsstMsg(r.content)

NoResp == LLMResponse(<<>>, <<>>, "")

\* a turn's coroutine is alive: run has been entered and has neither returned
\* nor raised, and the process it runs in has not been replaced
InFlight(t) == pc[t] \in {"llm", "tools", "reply", "sleep"}

\* the frame of run is gone: its locals are dropped
Drop(t) ==
    /\ messages' = [messages EXCEPT ![t] = <<>>]
    /\ cache_indices' = [cache_indices EXCEPT ![t] = <<>>]
    /\ turn_msgs' = [turn_msgs EXCEPT ![t] = <<>>]
    /\ resp' = [resp EXCEPT ![t] = NoResp]
    /\ tc_i' = [tc_i EXCEPT ![t] = 0]

\* a run that, when a restart is pending, goes to the sleep before execv
\* without invoking on_reply
AfterLoopRestartFirst(t, sess, tmsgs, freply, prestart) ==
    /\ sessions' = [sess EXCEPT ![chat_id[t]].messages = SaveMessages(@, tmsgs, now)]
    /\ disk' = [disk EXCEPT ![safe(chat_id[t])] = SaveLines(@, tmsgs, now)]
    /\ now' = now + 1
    /\ saved' = [saved EXCEPT ![t] = tmsgs]
    /\ Drop(t)
    /\ final_reply' = [final_reply EXCEPT ![t] = freply]
    /\ pending_restart' = [pending_restart EXCEPT ![t] = prestart]
    /\ IF freply # <<>> /\ ~prestart
       THEN /\ pc' = [pc EXCEPT ![t] = "reply"]
            /\ replies' = [replies EXCEPT ![t] = Append(@, freply)]
       ELSE /\ pc' = [pc EXCEPT ![t] = IF prestart THEN "sleep" ELSE "done"]
            /\ replies' = replies

\* a run that records its final reply as one more assistant message of the turn
AfterLoopSavesReply(t, sess, tmsgs, freply, prestart) ==
    /\ sessions' = [sess EXCEPT ![chat_id[t]].messages =
                        SaveMessages(@, Append(tmsgs, AsstMsg(freply)), now)]
    /\ disk' = [disk EXCEPT ![safe(chat_id[t])] =
                        SaveLines(@, Append(tmsgs, AsstMsg(freply)), now)]
    /\ now' = now + 1
    /\ saved' = [saved EXCEPT ![t] = Append(tmsgs, AsstMsg(freply))]
    /\ Drop(t)
    /\ final_reply' = [final_reply EXCEPT ![t] = freply]
    /\ pending_restart' = [pending_restart EXCEPT ![t] = prestart]
    /\ IF freply # <<>>
       THEN /\ pc' = [pc EXCEPT ![t] = "reply"]
            /\ replies' = [replies EXCEPT ![t] = Append(@, freply)]
       ELSE /\ pc' = [pc EXCEPT ![t] = IF prestart THEN "sleep" ELSE "done"]
            /\ replies' = replies

\* run after its loop (agent.py:322-330), up to the next await: save_turn,
\* then on_reply if there is a final reply, else the sleep before execv, else
\* the return. The lists of the turn are not read again.
AfterLoop(t, sess, tmsgs, freply, prestart) ==
    /\ sessions' = [sess EXCEPT ![chat_id[t]].messages = SaveMessages(@, tmsgs, now)]
    /\ disk' = [disk EXCEPT ![safe(chat_id[t])] = SaveLines(@, tmsgs, now)]
    /\ now' = now + 1
    /\ Drop(t)
    /\ pending_restart' = [pending_restart EXCEPT ![t] = prestart]
    /\ IF SaveRaises(tmsgs)
       THEN /\ pc' = [pc EXCEPT ![t] = "raised"]
            /\ UNCHANGED <<saved, final_reply, replies>>
       ELSE /\ saved' = [saved EXCEPT ![t] = tmsgs]
            /\ final_reply' = [final_reply EXCEPT ![t] = freply]
            /\ IF freply # <<>>
               THEN /\ pc' = [pc EXCEPT ![t] = "reply"]
                    /\ replies' = [replies EXCEPT ![t] = Append(@, freply)]
               ELSE /\ pc' = [pc EXCEPT ![t] = IF prestart THEN "sleep" ELSE "done"]
                    /\ replies' = replies

\* ------------------------------------------------------ inputs of the loop
\* the tool calls the model makes in the event loop's runs: a shell command,
\* restart_self, and a shell command whose timeout is no number
CallKinds ==
    {[name |-> "shell", arguments |-> Text("json", EmptyDict)],
     [name |-> "restart_self", arguments |-> Text("none", EmptyDict)],
     [name |-> "shell", arguments |-> Text("json", With("timeout", JStr(<<"a">>)))]}

CallLists ==
    {<<RawCall("c1", c.name, c.arguments)>> : c \in CallKinds}
    \cup {<<RawCall("c1", "restart_self", Text("none", EmptyDict)),
            RawCall("c2", "shell", Text("json", EmptyDict))>>}

\* what the provider answers in the event loop's runs
Responses ==
    {Raw(TRUE, 0, NoneText, <<>>, NoneStr), Raw(FALSE, 0, NoneText, <<>>, NoneStr)}
    \cup {Raw(FALSE, 1, c, <<>>, f) :
            c \in {NoneText, <<>>, <<"hi">>}, f \in {NoneStr, "stop", "error"}}
    \cup {Raw(FALSE, 1, c, l, "tool_calls") : c \in {NoneText, <<"hi">>}, l \in CallLists}

\* what the world does to the tools in the event loop's runs
LoopEnvs == {Env("ok", "ok", "ok", TRUE)}

\* ------------------------------------------------------------ the event loop
\* FeishuBot._handle schedules the handler of an inbound message: run is
\* entered and goes as far as its first await (agent.py:279-287)
RunEnter(t) ==
    /\ pc[t] = "idle"
    /\ LET k == chat_id[t]
           sess == SessionManagerGet(sessions[k], disk[safe(k)]).session
           reg == [sessions EXCEPT ![k] = sess]
           built == _build_messages(sess, k, UserContent(t), memory, now)
       IN  IF max_tool_rounds <= 0
           THEN /\ AfterLoop(t, reg, <<UserMsg(UserContent(t))>>, <<>>, FALSE)
                /\ UNCHANGED <<round_num, llm_calls, sent>>
           ELSE /\ sessions' = reg
                /\ sent' = [sent EXCEPT ![t] = [n |-> 1, first |-> built.messages,
                                                last |-> built.messages, ran |-> <<>>]]
                /\ messages' = [messages EXCEPT ![t] = built.messages]
                /\ cache_indices' = [cache_indices EXCEPT ![t] = built.cache_indices]
                /\ turn_msgs' = [turn_msgs EXCEPT ![t] = <<UserMsg(UserContent(t))>>]
                /\ final_reply' = [final_reply EXCEPT ![t] = <<>>]
                /\ pending_restart' = [pending_restart EXCEPT ![t] = FALSE]
                /\ round_num' = [round_num EXCEPT ![t] = 0]
                /\ llm_calls' = [llm_calls EXCEPT ![t] = 1]
                /\ pc' = [pc EXCEPT ![t] = "llm"]
                /\ UNCHANGED <<resp, tc_i, replies, saved, disk, now>>
    /\ UNCHANGED <<feishuVars, cache_probe, mem_log, handles, max_tool_rounds, chat_id, memory, file, last_resp,
                   exec_log, probeVars>>

\* an exception leaves run: _handle logs it (feishu.py:213-214)
Raise(t) ==
    /\ pc' = [pc EXCEPT ![t] = "raised"]
    /\ Drop(t)
    /\ UNCHANGED <<final_reply, pending_restart, round_num, replies, saved, llm_calls,
                   sessions, disk, now>>

\* provider.chat returns (agent.py:287-306), up to the next await
LLMReturnOf(t, answers) ==
    /\ pc[t] = "llm"
    /\ \E raw \in answers :
        LET r == chat(raw)
        IN  /\ last_resp' = [last_resp EXCEPT ![t] = r]
            /\ IF r.raised THEN Raise(t)
               ELSE IF r.finish_reason = "error"
               THEN /\ AfterLoop(t, sessions, turn_msgs[t], TextOr(r.content, <<"LLM error.">>),
                                 pending_restart[t])
                    /\ UNCHANGED <<round_num, llm_calls>>
               ELSE IF ~has_tool_calls(r)
               THEN /\ AfterLoop(t, sessions, Append(turn_msgs[t], Asst(r)),
                                 TextOr(r.content, <<>>), pending_restart[t])
                    /\ UNCHANGED <<round_num, llm_calls>>
               ELSE /\ messages' = [messages EXCEPT ![t] = Append(@, Asst(r))]
                    /\ turn_msgs' = [turn_msgs EXCEPT ![t] = Append(@, Asst(r))]
                    /\ resp' = [resp EXCEPT ![t] = r]
                    /\ tc_i' = [tc_i EXCEPT ![t] = 1]
                    /\ pc' = [pc EXCEPT ![t] = "tools"]
                    /\ UNCHANGED <<cache_indices, final_reply, pending_restart, round_num,
                                   replies, saved, llm_calls, sessions, disk, now>>
    /\ UNCHANGED <<sideVars, max_tool_rounds, chat_id, memory, file, exec_log, probeVars>>

LLMReturn(t) == LLMReturnOf(t, Responses)

\* a loop that takes its last round one round late
LastRoundOneLate(r, m) == r = m

\* round_num == self.max_tool_rounds - 1 (agent.py:318): the round is the last
\* one of range(max_tool_rounds)
LastRound(r, m) == r = m - 1

\* one tool call of the round (agent.py:308-320): _run_tool, the tool message,
\* and after the last call of the round the next round or the end of the loop
ExecTool(t) ==
    /\ pc[t] = "tools"
    /\ \E env \in LoopEnvs :
        LET tc == resp[t].tool_calls[tc_i[t]]
            out == _run_tool(tc.name, tc.arguments, env, memory, file)
            tool_msg == ToolMsg(tc.id, tc.name, out.result)
            restart == pending_restart[t] \/ out.restart
            next_round == /\ ~out.raised
                          /\ tc_i[t] = Len(resp[t].tool_calls)
                          /\ ~LastRound(round_num[t], max_tool_rounds)
        IN  /\ sent' = IF next_round
                       THEN [sent EXCEPT ![t].n = @ + 1,
                                         ![t].last = Append(messages[t], tool_msg),
                                         ![t].ran = Append(@, tc.name)]
                       ELSE [sent EXCEPT ![t].ran = Append(@, tc.name)]
            /\ IF out.raised THEN Raise(t) /\ memory' = out.mem /\ file' = out.file
               ELSE /\ memory' = out.mem
                    /\ file' = out.file
                    /\ IF tc_i[t] < Len(resp[t].tool_calls)
                       THEN /\ messages' = [messages EXCEPT ![t] = Append(@, tool_msg)]
                            /\ turn_msgs' = [turn_msgs EXCEPT ![t] = Append(@, tool_msg)]
                            /\ pending_restart' = [pending_restart EXCEPT ![t] = restart]
                            /\ tc_i' = [tc_i EXCEPT ![t] = @ + 1]
                            /\ UNCHANGED <<pc, cache_indices, final_reply, round_num, resp,
                                           replies, saved, llm_calls, sessions, disk, now>>
                       ELSE IF LastRound(round_num[t], max_tool_rounds)
                       THEN /\ AfterLoop(t, sessions, Append(turn_msgs[t], tool_msg),
                                         MaxRoundsNotice, restart)
                            /\ UNCHANGED <<round_num, llm_calls>>
                       ELSE /\ messages' = [messages EXCEPT ![t] = Append(@, tool_msg)]
                            /\ turn_msgs' = [turn_msgs EXCEPT ![t] = Append(@, tool_msg)]
                            /\ pending_restart' = [pending_restart EXCEPT ![t] = restart]
                            /\ round_num' = [round_num EXCEPT ![t] = @ + 1]
                            /\ llm_calls' = [llm_calls EXCEPT ![t] = @ + 1]
                            /\ resp' = [resp EXCEPT ![t] = NoResp]
                            /\ tc_i' = [tc_i EXCEPT ![t] = 0]
                            /\ pc' = [pc EXCEPT ![t] = "llm"]
                            /\ UNCHANGED <<cache_indices, final_reply, replies, saved,
                                           sessions, disk, now>>
    /\ UNCHANGED <<feishuVars, cache_probe, mem_log, handles, max_tool_rounds, chat_id, last_resp, exec_log, probeVars>>

\* on_reply returns (agent.py:325-327): the sleep before execv, or the return
ReplyReturn(t) ==
    /\ pc[t] = "reply"
    /\ pc' = [pc EXCEPT ![t] = IF pending_restart[t] THEN "sleep" ELSE "done"]
    /\ UNCHANGED <<sideVars, max_tool_rounds, chat_id, messages, cache_indices, turn_msgs,
                   final_reply, pending_restart, round_num, resp, tc_i, replies, saved,
                   llm_calls, last_resp, exec_log, storeVars, probeVars>>

\* os.execv (agent.py:329): the process image is replaced; every coroutine of
\* the old process is gone, and the new process starts with an empty registry
Exec(t) ==
    /\ pc[t] = "sleep"
    /\ pc' = [u \in Turns |-> IF u = t THEN "execed"
                               ELSE IF InFlight(u) THEN "killed" ELSE pc[u]]
    /\ messages' = [u \in Turns |-> IF InFlight(u) THEN <<>> ELSE messages[u]]
    /\ cache_indices' = [u \in Turns |-> IF InFlight(u) THEN <<>> ELSE cache_indices[u]]
    /\ turn_msgs' = [u \in Turns |-> IF InFlight(u) THEN <<>> ELSE turn_msgs[u]]
    /\ resp' = [u \in Turns |-> IF InFlight(u) THEN NoResp ELSE resp[u]]
    /\ tc_i' = [u \in Turns |-> IF InFlight(u) THEN 0 ELSE tc_i[u]]
    /\ sessions' = [k \in Keys |-> NoSession]
    /\ exec_log' = Append(exec_log, t)
    /\ UNCHANGED <<sideVars, max_tool_rounds, chat_id, final_reply, pending_restart, round_num,
                   replies, saved, llm_calls, last_resp, disk, memory, file, now, probeVars>>

NoProbe == [name |-> "", args |-> EmptyDict, env |-> Env("ok", "ok", "ok", TRUE),
            before |-> NoFile, out |-> Outcome(FALSE, <<>>, FALSE, NoFile, NoFile)]
NoChat == [raw |-> Raw(FALSE, 0, NoneText, <<>>, NoneStr), out |-> NoResp]

InitLoop ==
    /\ pc = [t \in Turns |-> "idle"]
    /\ messages = [t \in Turns |-> <<>>]
    /\ cache_indices = [t \in Turns |-> <<>>]
    /\ turn_msgs = [t \in Turns |-> <<>>]
    /\ final_reply = [t \in Turns |-> <<>>]
    /\ pending_restart = [t \in Turns |-> FALSE]
    /\ round_num = [t \in Turns |-> 0]
    /\ resp = [t \in Turns |-> NoResp]
    /\ tc_i = [t \in Turns |-> 0]
    /\ replies = [t \in Turns |-> <<>>]
    /\ saved = [t \in Turns |-> <<>>]
    /\ llm_calls = [t \in Turns |-> 0]
    /\ last_resp = [t \in Turns |-> NoResp]
    /\ exec_log = <<>>

\* ------------------------------------------------- feishu.py: FeishuBot
SELF_OPEN_ID == "ou_d0e9377c7527efb15649969ee9b08dc1"
OtherOpenId == "ou_other"
AtToken == "@_user_1 "

\* the inbound messages, by message id: who sent it, where, whom it mentions,
\* and the text of its content (Malformed: a content json.loads rejects)
Malformed == <<"{">>
Events ==
    <<[sender_type |-> "user", chat_type |-> "p2p", mentions |-> {},
       text |-> <<"h", "i">>],
      [sender_type |-> "user", chat_type |-> "group", mentions |-> {SELF_OPEN_ID, OtherOpenId},
       text |-> <<AtToken, "h", "i">>],
      [sender_type |-> "bot", chat_type |-> "p2p", mentions |-> {},
       text |-> <<"h", "i">>],
      [sender_type |-> "user", chat_type |-> "group", mentions |-> {OtherOpenId},
       text |-> <<AtToken, "h", "i">>],
      [sender_type |-> "user", chat_type |-> "p2p", mentions |-> {},
       text |-> <<AtToken, " ">>],
      [sender_type |-> "user", chat_type |-> "p2p", mentions |-> {},
       text |-> Malformed]>>
Mids == 1..Len(Events)

\* _handle's loop `while len(self._dedup) > 1000: popitem(last=False)`
RECURSIVE Evict(_)
Evict(d) == IF Len(d) > DedupCap THEN Evict(Tail(d)) ELSE d

\* _handle's filters between the dedup table and its first await
FromBot(m) == Events[m].sender_type = "bot"
Unmentioned(m) ==
    Events[m].chat_type = "group" /\ SELF_OPEN_ID \notin Events[m].mentions
Qualifies(m) == ~FromBot(m) /\ ~Unmentioned(m)

\* _AT_RE.sub("", text).strip() of a text message
_AT_RE_sub(text) == SelectSeq(text, LAMBDA c : c # AtToken)
TextOf(m) == strip(_AT_RE_sub(Events[m].text))

InitBot ==
    /\ _dedup = <<>>
    /\ delivered = <<>>
    /\ inflight = [m \in Mids |-> 0]
    /\ handled = [m \in Mids |-> 0]

NoCache == [heap |-> <<>>, messages |-> <<>>, cache_indices |-> <<>>, before |-> <<>>,
            request |-> <<>>, calls |-> 0, appended |-> 0]
NoCalls == [init |-> NoFile, calls |-> <<>>]
NoneSent == [n |-> 0, first |-> <<>>, last |-> <<>>, ran |-> <<>>]

InitSide ==
    /\ mem_log = NoCalls
    /\ handles = [k \in Keys |-> <<>>]
    /\ sent = [t \in Turns |-> NoneSent]
    /\ InitBot
    /\ cache_probe = NoCache

InitProbes ==
    /\ history = <<>>
    /\ tool_probe = NoProbe
    /\ chat_probe = NoChat
    /\ InitSide

\* a fresh installation: no session file, no memory, one file in the workspace
Init ==
    /\ max_tool_rounds \in 0 .. MaxRounds
    /\ chat_id \in {c \in [Turns -> Keys] : c[1] = KeyA}
    /\ InitLoop
    /\ sessions = [k \in Keys |-> NoSession]
    /\ disk = [p \in Paths |-> <<>>]
    /\ memory = NoFile
    /\ file = File(<<"a", "b">>)
    /\ now = 0
    /\ InitProbes

\* ------------------------------------------------- SpecSession: the sessions
\* the turns the agent loop saves: a reply, an LLM error, an LLM error after a
\* user message that holds a line separator, a tool round and a reply, a tool
\* round cut by the round limit
Call1 == [id |-> "c1", type |-> "function",
          function |-> [name |-> "shell", arguments |-> json_dumps(EmptyDict)]]
TurnShapes ==
    {<<UserMsg(<<"u">>), AsstMsg(<<"hi">>)>>,
     <<UserMsg(<<"u">>)>>,
     <<UserMsg(<<"u", "<U+2028>", "v">>)>>,
     <<UserMsg(<<"u">>), AsstCalls(<<>>, <<Call1>>), ToolMsg("c1", "shell", <<"<output>">>),
       AsstMsg(<<"hi">>)>>,
     <<UserMsg(<<"u">>), AsstCalls(<<>>, <<Call1>>), ToolMsg("c1", "shell", <<"<output>">>)>>}

\* the turns save_turn is given: those, and a turn whose assistant message
\* with a tool call holds a lone surrogate
SavedShapes ==
    TurnShapes \cup
    {<<UserMsg(<<"u">>), AsstCalls(<<"<U+D800>">>, <<Call1>>),
       ToolMsg("c1", "shell", <<"<output>">>), AsstMsg(<<"hi">>)>>}

RECURSIVE Flatten(_)
Flatten(ss) == IF ss = <<>> THEN <<>> ELSE Head(ss) \o Flatten(Tail(ss))

\* the session files on disk when the process starts: turns saved by earlier
\* processes, with or without a meta record of the watermark
StoredFiles ==
    LET turns == UNION {[1 .. n -> TurnShapes] : n \in 0 .. MaxStoredTurns}
        lines(ts) == SaveLines(<<>>, Flatten(ts), 0)
    IN  {lines(ts) : ts \in turns}
        \cup {<<MetaLine(w)>> \o lines(ts) : ts \in turns, w \in 0 .. MaxWatermark}
        \cup {lines(ts) \o <<BadLine>> \o lines(ts) : ts \in turns}

InitSession ==
    /\ max_tool_rounds = MaxRounds
    /\ chat_id = [t \in Turns |-> KeyA]
    /\ InitLoop
    /\ sessions = [k \in Keys |-> NoSession]
    /\ disk \in {d \in [Paths -> StoredFiles] : \A q \in Paths \ {safe(KeyA)} : d[q] = <<>>}
    /\ memory = NoFile
    /\ file = NoFile
    /\ now = 1
    /\ InitProbes

\* SessionManager.get(key)
SessionGet(k) ==
    /\ Len(handles[KeyA]) + Len(handles[KeyB]) < MaxGets
    /\ LET got == SessionManagerGet(sessions[k], disk[safe(k)])
       IN  /\ sessions' = [sessions EXCEPT ![k] = got.session]
           /\ handles' = [handles EXCEPT ![k] =
                            Append(@, [obj |-> IF got.fresh THEN LastObj(@) + 1 ELSE LastObj(@),
                                       after_save |-> now > 1])]
    /\ UNCHANGED <<feishuVars, cache_probe, mem_log, sent, max_tool_rounds, chat_id, loopVars, disk, memory, file, now,
                   probeVars>>

\* Session.save_turn(msgs) on the session of key k
SaveTurn(k, msgs) ==
    /\ sessions[k].created
    /\ now <= MaxSaves
    /\ sessions' = [sessions EXCEPT ![k].messages = SaveMessages(@, msgs, now)]
    /\ disk' = [disk EXCEPT ![safe(k)] = SaveLines(@, msgs, now)]
    /\ now' = now + 1
    /\ UNCHANGED <<sideVars, max_tool_rounds, chat_id, loopVars, memory, file, probeVars>>

\* Session.get_history() on the session of key k
GetHistory(k) ==
    /\ sessions[k].created
    /\ history' = get_history(sessions[k])
    /\ UNCHANGED <<sideVars, max_tool_rounds, chat_id, loopVars, storeVars, tool_probe, chat_probe>>

NextSession ==
    \E k \in Keys :
        \/ SessionGet(k)
        \/ \E msgs \in SavedShapes : SaveTurn(k, msgs)
        \/ GetHistory(k)

SpecSession == InitSession /\ [][NextSession]_vars

\* ------------------------------------------------------ SpecTool: the tools
ToolNames ==
    {"shell", "read_file", "write_file", "patch_file", "save_memory", "recall_memory",
     "restart_self", "web_search", "web_fetch", "edit_file"}

\* the values the model gives a key: null, a number, texts
ArgVals == {JNull, JInt(7), JStr(<<>>), JStr(<<" ">>), JStr(<<"a">>), JStr(<<"7">>)}

\* the values it gives `patches`: lists of items, and values that are no list
PatchItems == {Patch(<<"a">>, <<"c">>), Patch(<<"x">>, <<"c">>), Patch(<<"a", "a">>, <<"c">>),
               NotAnObject,
               Item(TRUE, "other", <<>>, "str", <<"c">>),
               Item(TRUE, "str", <<"b">>, "other", <<>>),
               Item(TRUE, "missing", <<>>, "missing", <<>>)}
PatchVals ==
    {JList(<<>>), JNull, JStr(<<"a">>)}
    \cup {JList(<<p>>) : p \in PatchItems}
    \cup {JList(<<Patch(<<"b">>, <<"c">>), p>>) : p \in PatchItems}
    \cup {JList(<<Patch(<<"a">>, <<"b">>), Patch(<<"b">>, <<"c">>)>>),
          JList(<<Patch(<<"a">>, <<"x">>), Patch(<<"x">>, <<"c">>)>>)}

\* the keys a tool reads besides `path`
KeysOf(name) ==
    CASE name = "shell" -> {"cmd", "timeout"}
      [] name = "write_file" -> {"content"}
      [] name = "patch_file" -> {"patches"}
      [] name = "save_memory" -> {"content"}
      [] name = "web_search" -> {"query", "count"}
      [] name = "web_fetch" -> {"url", "max_chars"}
      [] OTHER -> {}

\* the argument payloads of a tool, decoded: documents that are no object, the
\* empty object, objects with one of its keys, and for the file tools objects
\* with a path, alone and with the other key
ArgDocs(name) ==
    {JOther("list"), JOther("null"), JOther("str"), EmptyDict}
    \cup {With(a, v) : a \in KeysOf(name) \ {"patches"}, v \in ArgVals}
    \cup (IF name \in {"read_file", "write_file", "patch_file"}
          THEN {With("path", v) : v \in ArgVals}
               \cup {JObject([NoItems EXCEPT !["path"] = JStr(<<"a">>), ![a] = v]) :
                       a \in KeysOf(name),
                       v \in IF name = "patch_file" THEN PatchVals ELSE ArgVals}
          ELSE {})

\* what the world can do to a tool
EnvsOf(name) ==
    CASE name = "shell" -> {Env(x, "ok", "ok", TRUE) : x \in {"ok", "empty", "timeout", "err"}}
      [] name \in {"read_file", "write_file", "patch_file"} ->
            {Env("ok", x, "ok", TRUE) : x \in {"ok", "read_err", "write_err"}}
      [] name = "web_search" ->
            {Env("ok", "ok", x, TRUE) : x \in {"ok", "empty", "err"}}
            \cup {Env("ok", "ok", "ok", FALSE)}
      [] name = "web_fetch" -> {Env("ok", "ok", x, TRUE) : x \in {"ok", "err"}}
      [] OTHER -> {Env("ok", "ok", "ok", TRUE)}

InitTool ==
    /\ max_tool_rounds = MaxRounds
    /\ chat_id = [t \in Turns |-> KeyA]
    /\ InitLoop
    /\ sessions = [k \in Keys |-> NoSession]
    /\ disk = [p \in Paths |-> <<>>]
    /\ memory \in {NoFile, File(<<"m", "\n">>)}
    /\ file \in {NoFile, File(<<"a", "b">>), File(<<"a", "b", "a">>), File(<<"a", "a", "a">>)}
    /\ now = 0
    /\ InitProbes

\* one call of _run_tool, as run makes it (agent.py:310)
RunTool(name, args, env) ==
    /\ now < MaxToolRuns
    /\ LET out == _run_tool(name, args, env, memory, file)
       IN  /\ tool_probe' = [name |-> name, args |-> args, env |-> env, before |-> file,
                             out |-> out]
           /\ memory' = out.mem
           /\ file' = out.file
    /\ now' = now + 1
    /\ UNCHANGED <<sideVars, max_tool_rounds, chat_id, loopVars, sessions, disk, history, chat_probe>>

\* the argument payloads of edit_file: a path with an old and a new, each a
\* text, absent or of another type; a payload without path; one that is no
\* object
EditDocs ==
    {JOther("null"), With("old", JStr(<<"a">>))}
    \cup {JObject([NoItems EXCEPT !["path"] = JStr(<<"a">>), !["old"] = o, !["new"] = n]) :
            o \in {Missing, JStr(<<>>), JStr(<<"a">>), JStr(<<"b">>), JStr(<<"a", "b">>),
                   JStr(<<"a", "a">>), JStr(<<"x">>), JInt(7)},
            n \in {Missing, JStr(<<"c">>), JStr(<<"a">>), JNull}}

\* one call of run_tool("edit_file", args) of tools.py
EditFile(args, env) ==
    /\ now < MaxToolRuns
    /\ LET out == run_tool_edit_file(args, env, memory, file)
       IN  /\ tool_probe' = [name |-> "tools.edit_file", args |-> args, env |-> env,
                             before |-> file, out |-> out]
           /\ memory' = out.mem
           /\ file' = out.file
    /\ now' = now + 1
    /\ UNCHANGED <<sideVars, max_tool_rounds, chat_id, loopVars, sessions, disk, history, chat_probe>>

NextTool ==
    \/ \E name \in ToolNames : \E args \in ArgDocs(name), env \in EnvsOf(name) :
            RunTool(name, args, env)
    \/ \E args \in EditDocs, env \in EnvsOf("read_file") : EditFile(args, env)

SpecTool == InitTool /\ [][NextTool]_vars

\* ------------------------------------------------------- SpecChat: the LLM
ArgPayloads ==
    {Text("none", EmptyDict), Text("empty", EmptyDict), Text("malformed", EmptyDict),
     Text("nonstr", EmptyDict), Text("json", EmptyDict),
     Text("json", With("timeout", JInt(7))), Text("json", JOther("list")),
     Text("json", JOther("null")), Text("json", JOther("str"))}

RawCalls ==
    {RawCall("c1", "shell", a) : a \in ArgPayloads}
    \cup {RawCall("c1", "restart_self", Text("none", EmptyDict))}

RawCallLists == UNION {[1 .. n -> RawCalls] : n \in 0 .. MaxRawCalls}

RawOutcomes ==
    {Raw(TRUE, 0, NoneText, <<>>, NoneStr), Raw(FALSE, 0, NoneText, <<>>, NoneStr)}
    \cup {Raw(FALSE, 1, c, l, f) :
            c \in {NoneText, <<>>, <<"hi">>}, l \in RawCallLists,
            f \in {NoneStr, "stop", "tool_calls", "error"}}

\* one call of provider.chat
Chat(raw) ==
    /\ now < MaxChats
    /\ now' = now + 1
    /\ chat_probe' = [raw |-> raw, out |-> chat(raw)]
    /\ tool_probe' = NoProbe
    /\ UNCHANGED <<sideVars, max_tool_rounds, chat_id, loopVars, sessions, disk, memory, file, history>>

\* a tool call chat has returned is run, as the loop does next
ChatThenTool(j, env) ==
    /\ ~chat_probe.out.raised
    /\ j \in 1 .. Len(chat_probe.out.tool_calls)
    /\ LET tc == chat_probe.out.tool_calls[j]
           out == _run_tool(tc.name, tc.arguments, env, memory, file)
       IN  /\ tool_probe' = [name |-> tc.name, args |-> tc.arguments, env |-> env,
                             before |-> file, out |-> out]
           /\ memory' = out.mem
           /\ file' = out.file
    /\ UNCHANGED <<sideVars, max_tool_rounds, chat_id, loopVars, sessions, disk, now, history,
                   chat_probe>>

NextChat ==
    \/ \E raw \in RawOutcomes : Chat(raw)
    \/ \E j \in 1 .. MaxRawCalls : ChatThenTool(j, Env("ok", "ok", "ok", TRUE))

SpecChat == InitTool /\ [][NextChat]_vars

\* ------------------------------------------------ SpecMemory: the memory
\* the texts given to MemoryStore.append, and the argument payloads of the
\* save_memory tool: blocks with and without whitespace around them, empty
\* and blank ones, one with a lone surrogate, and content that is absent or
\* no string
MemoryTexts == {<<"a">>, <<" ", "b", "\n">>, <<>>, <<" ", "\n">>, <<"<U+D800>">>}
MemoryDocs ==
    {EmptyDict, With("content", JNull)} \cup {With("content", JStr(x)) : x \in MemoryTexts}

\* MEMORY.md when the process starts
InitMemory ==
    /\ max_tool_rounds = MaxRounds
    /\ chat_id = [t \in Turns |-> KeyA]
    /\ InitLoop
    /\ sessions = [k \in Keys |-> NoSession]
    /\ disk = [p \in Paths |-> <<>>]
    /\ memory \in {NoFile, File(<<>>), File(<<" ", "\n">>), File(<<"q", " ", "\n">>)}
    /\ file = NoFile
    /\ now = 0
    /\ history = <<>>
    /\ tool_probe = NoProbe
    /\ chat_probe = NoChat
    /\ mem_log = [init |-> memory, calls |-> <<>>]
    /\ handles = [k \in Keys |-> <<>>]
    /\ sent = [t \in Turns |-> NoneSent]
    /\ InitBot
    /\ cache_probe = NoCache

\* a call on the blob: the operation, its argument, the blob before it, and
\* whether it raised
MemCall(op, arg, before, raised) ==
    [op |-> op, arg |-> arg, before |-> before, raised |-> raised]

\* MemoryStore.append(text)
MemoryStoreAppend(text) ==
    /\ Len(mem_log.calls) < MaxAppends
    /\ memory' = MemoryAppend(memory, text)
    /\ mem_log' = [mem_log EXCEPT !.calls =
                        Append(@, MemCall("append", JStr(text), memory,
                                          MemoryAppendRaises(memory, text)))]
    /\ UNCHANGED <<feishuVars, cache_probe, max_tool_rounds, chat_id, loopVars, sessions, disk, file, now, probeVars,
                   handles, sent>>

\* _run_tool("save_memory", args)
SaveMemory(args) ==
    /\ Len(mem_log.calls) < MaxAppends
    /\ LET out == _run_tool("save_memory", args, Env("ok", "ok", "ok", TRUE), memory, file)
       IN  /\ memory' = out.mem
           /\ mem_log' = [mem_log EXCEPT !.calls =
                            Append(@, MemCall("save_memory", args, memory, out.raised))]
    /\ UNCHANGED <<feishuVars, cache_probe, max_tool_rounds, chat_id, loopVars, sessions, disk, file, now, probeVars,
                   handles, sent>>

NextMemory ==
    \/ \E text \in MemoryTexts : MemoryStoreAppend(text)
    \/ \E args \in MemoryDocs : SaveMemory(args)

SpecMemory == InitMemory /\ [][NextMemory]_vars

\* ------------------------------------------------------------- SpecCache
\* the message lists a caller holds, as objects: the list run builds (system,
\* runtime context, a user message of a text and an image part), a list with
\* a multi-part message and a message without content, one with an empty
\* list content, the empty list, and a list that holds one object twice
CacheLists ==
    {[heap |-> <<StrMessage("system", <<"s">>), StrMessage("user", <<"c">>),
                 Part("text", <<"u">>, FALSE), Part("image_url", <<"<img>">>, FALSE),
                 ListMessage("user", <<3, 4>>)>>,
      messages |-> <<1, 2, 5>>],
     [heap |-> <<Part("text", <<"a">>, FALSE), Part("text", <<"b">>, FALSE),
                 ListMessage("user", <<1, 2>>),
                 Obj("assistant", "missing", <<>>, <<>>, "", FALSE)>>,
      messages |-> <<3, 4>>],
     [heap |-> <<ListMessage("user", <<>>), StrMessage("tool", <<"r">>)>>,
      messages |-> <<1, 2>>],
     [heap |-> <<>>, messages |-> <<>>],
     [heap |-> <<StrMessage("user", <<"x">>)>>, messages |-> <<1, 1>>]}

CacheIndices == {<<0, 1>>, <<>>, <<0, 0>>, <<1, 2>>, <<-1, 5>>, <<2>>}

InitCache ==
    /\ max_tool_rounds = MaxRounds
    /\ chat_id = [t \in Turns |-> KeyA]
    /\ InitLoop
    /\ sessions = [k \in Keys |-> NoSession]
    /\ disk = [p \in Paths |-> <<>>]
    /\ memory = NoFile
    /\ file = NoFile
    /\ now = 0
    /\ history = <<>>
    /\ tool_probe = NoProbe
    /\ chat_probe = NoChat
    /\ mem_log = NoCalls
    /\ handles = [k \in Keys |-> <<>>]
    /\ sent = [t \in Turns |-> NoneSent]
    /\ InitBot
    /\ \E l \in CacheLists, ci \in CacheIndices :
            cache_probe = [heap |-> l.heap, messages |-> l.messages, cache_indices |-> ci,
                           before |-> DerefAll(l.heap, l.messages), request |-> <<>>,
                           calls |-> 0, appended |-> 0]

\* one call of chat by the holder of the list: the request is what chat
\* hands to the client
CacheChat ==
    /\ cache_probe.calls < MaxCacheCalls
    /\ LET out == ChatMsgs(cache_probe.heap, cache_probe.messages, cache_probe.cache_indices)
       IN  cache_probe' = [cache_probe EXCEPT !.heap = out.heap,
                                              !.request = DerefAll(out.heap, out.result),
                                              !.calls = @ + 1]
    /\ UNCHANGED <<max_tool_rounds, chat_id, loopVars, storeVars, probeVars, mem_log,
                   handles, sent, feishuVars>>

\* run appends the assistant message of the round to the list it holds
\* (agent.py:301)
CacheAppend ==
    /\ cache_probe.appended < cache_probe.calls
    /\ LET asst == StrMessage("assistant", <<"a">>)
           h == Append(cache_probe.heap, asst)
       IN  cache_probe' = [cache_probe EXCEPT !.heap = h,
                                              !.messages = Append(@, Len(h)),
                                              !.before = Append(@, Deref(h, Len(h))),
                                              !.appended = @ + 1]
    /\ UNCHANGED <<max_tool_rounds, chat_id, loopVars, storeVars, probeVars, mem_log,
                   handles, sent, feishuVars>>

NextCache == CacheChat \/ CacheAppend

SpecCache == InitCache /\ [][NextCache]_vars

\* ------------------------------------------------------------ SpecFeishu
\* _handle up to its first await: the dedup table, then the filters
Deliver(m) ==
    /\ Len(delivered) < MaxDeliveries
    /\ delivered' = Append(delivered, m)
    /\ IF \E i \in 1..Len(_dedup) : _dedup[i] = m
       THEN UNCHANGED <<_dedup, inflight>>
       ELSE /\ _dedup' = Evict(Append(_dedup, m))
            /\ inflight' = IF Qualifies(m) THEN [inflight EXCEPT ![m] = @ + 1]
                           ELSE inflight
    /\ UNCHANGED <<handled, max_tool_rounds, chat_id, loopVars, storeVars, probeVars,
                   mem_log, handles, sent, cache_probe>>

\* _handle from the return of `await self._react(mid)` on: the content is
\* parsed (an exception is logged and ends the task), an empty text returns,
\* anything else is given to the handler
Resume(m) ==
    /\ inflight[m] > 0
    /\ inflight' = [inflight EXCEPT ![m] = @ - 1]
    /\ handled' = IF Events[m].text # Malformed /\ TextOf(m) # <<>>
                  THEN [handled EXCEPT ![m] = @ + 1]
                  ELSE handled
    /\ UNCHANGED <<_dedup, delivered, max_tool_rounds, chat_id, loopVars, storeVars,
                   probeVars, mem_log, handles, sent, cache_probe>>

NextFeishu ==
    \/ \E m \in Mids : Deliver(m)
    \/ \E m \in Mids : Resume(m)

SpecFeishu == Init /\ [][NextFeishu]_vars

\* ------------------------------------------- SpecIsolation: sessions by key
\* keys of main.py's form for chat ids that differ in one character, which
\* SessionManager.get replaces or leaves as it is
KeyC == <<"f", ":", "a", "/", "b">>
KeyD == <<"f", ":", "a", "_", "b">>
AllKeys == Keys \cup {KeyC, KeyD}
AllPaths == {safe(k) : k \in AllKeys}

\* a fresh installation, no session registered
InitIsolation ==
    /\ max_tool_rounds = MaxRounds
    /\ chat_id = [t \in Turns |-> KeyA]
    /\ InitLoop
    /\ sessions = [k \in AllKeys |-> NoSession]
    /\ disk = [p \in AllPaths |-> <<>>]
    /\ memory = NoFile
    /\ file = NoFile
    /\ now = 1
    /\ InitProbes

\* SessionManager.get(key): the session registered for the key, or one
\* constructed from the file of the key's sanitized name and registered
GetSession(k) ==
    /\ ~sessions[k].created
    /\ sessions' = [sessions EXCEPT ![k] = SessionManagerGet(@, disk[safe(k)]).session]
    /\ UNCHANGED <<sideVars, max_tool_rounds, chat_id, loopVars, disk, memory, file, now,
                   probeVars>>

\* the process is started again: the registry is empty, the files are kept
Restart ==
    /\ \E k \in AllKeys : sessions[k].created
    /\ sessions' = [k \in AllKeys |-> NoSession]
    /\ UNCHANGED <<sideVars, max_tool_rounds, chat_id, loopVars, disk, memory, file, now,
                   probeVars>>

NextIsolation ==
    \/ \E k \in AllKeys :
            \/ GetSession(k)
            \/ \E msgs \in {<<UserMsg(<<"u">>), AsstMsg(<<"hi">>)>>, <<UserMsg(<<"v">>)>>} :
                    SaveTurn(k, msgs)
            \/ GetHistory(k)
    \/ Restart

SpecIsolation == InitIsolation /\ [][NextIsolation]_vars

\* ------------------------------- SpecUnwritable: turns with a lone surrogate
\* what the provider answers: a failed request, a reply, a round with a shell
\* command, and a reply and a round whose content holds a lone surrogate
\* (the JSON escape \ud800, which json.loads accepts)
ShellCall == RawCall("c1", "shell", Text("json", EmptyDict))
UnwritableResponses ==
    {Raw(TRUE, 0, NoneText, <<>>, NoneStr),
     Raw(FALSE, 1, <<"hi">>, <<>>, "stop"),
     Raw(FALSE, 1, <<"<U+D800>">>, <<>>, "stop"),
     Raw(FALSE, 1, NoneText, <<ShellCall>>, "tool_calls"),
     Raw(FALSE, 1, <<"<U+D800>">>, <<ShellCall>>, "tool_calls")}

NextUnwritable ==
    \E t \in Turns :
        \/ RunEnter(t)
        \/ LLMReturnOf(t, UnwritableResponses)
        \/ ExecTool(t)
        \/ ReplyReturn(t)

\* the turns of the event loop, with at least one tool round
InitUnwritable == Init /\ max_tool_rounds >= 1

SpecUnwritable == InitUnwritable /\ [][NextUnwritable]_vars

\* ------------------------------------------- SpecSaveMemory: turns that save
\* the contents the model gives to save_memory: texts with and without
\* whitespace around them, a blank one, one with a lone surrogate
SavedTexts == {<<"a">>, <<" ", "b", "\n">>, <<" ">>, <<"<U+D800>">>}

SaveMemoryArgs(x) == Text("json", With("content", JStr(x)))

\* the tool calls of a round: one save_memory call, or two of them around a
\* shell command, at whose await the event loop runs the other turns
SaveMemoryLists ==
    {<<RawCall("c1", "save_memory", SaveMemoryArgs(x))>> : x \in SavedTexts}
    \cup {<<RawCall("c1", "save_memory", SaveMemoryArgs(<<"a">>)),
            RawCall("c2", "shell", Text("json", EmptyDict)),
            RawCall("c3", "save_memory", SaveMemoryArgs(<<" ", "b", "\n">>))>>}

\* what the provider answers to the turns that save: a reply, or a round of
\* tool calls
SaveMemoryResponses ==
    {Raw(FALSE, 1, <<"hi">>, <<>>, "stop")}
    \cup {Raw(FALSE, 1, NoneText, l, "tool_calls") : l \in SaveMemoryLists}

\* the turns of the event loop, of one conversation or of two, with at least
\* one tool round
InitSaveMemory == Init /\ max_tool_rounds >= 1

NextSaveMemory ==
    \E t \in Turns :
        \/ RunEnter(t)
        \/ LLMReturnOf(t, SaveMemoryResponses)
        \/ ExecTool(t)
        \/ ReplyReturn(t)

SpecSaveMemory == InitSaveMemory /\ [][NextSaveMemory]_vars

Next ==
    \E t \in Turns :
        \/ RunEnter(t)
        \/ LLMReturn(t)
        \/ ExecTool(t)
        \/ ReplyReturn(t)
        \/ Exec(t)

Spec == Init /\ [][Next]_vars

\* the event loop when every LLM call and every tool call returns: a turn
\* that awaits provider.chat or _run_tool is resumed
InitFair == Init /\ max_tool_rounds <= MaxFairRounds
SpecFair ==
    /\ InitFair
    /\ [][Next]_vars
    /\ WF_vars(\E t \in Turns : LLMReturn(t) \/ ExecTool(t))

\* ================================================================== claims
HasCalls(m) == m.role = "assistant" /\ "tool_calls" \in m.keys

\* the n messages after msgs[i] are the tool messages of the first n tool
\* calls of msgs[i], in order, each with the call's id and tool name
Answers(msgs, i, n) ==
    /\ i + n <= Len(msgs)
    /\ \A j \in 1 .. n :
        /\ msgs[i + j].role = "tool"
        /\ msgs[i + j].tool_call_id = msgs[i].tool_calls[j].id
        /\ msgs[i + j].name = msgs[i].tool_calls[j].function.name

\* every assistant message with tool calls is followed by exactly its tool
\* messages, and there are as many tool messages as tool calls
Grouped(msgs) ==
    /\ \A i \in 1 .. Len(msgs) :
        HasCalls(msgs[i]) =>
            /\ Answers(msgs, i, Len(msgs[i].tool_calls))
            /\ i + Len(msgs[i].tool_calls) < Len(msgs)
                => msgs[i + Len(msgs[i].tool_calls) + 1].role # "tool"
    /\ \A p \in 1 .. Len(msgs) :
        msgs[p].role = "tool" =>
            \E i \in 1 .. p - 1 : HasCalls(msgs[i]) /\ p - i <= Len(msgs[i].tool_calls)

\* what holds in the loop: each assistant message with tool calls is directly
\* followed by one tool message per call, in the order of the calls, with the
\* call's tool_call_id and tool name: in the turn given to save_turn when it
\* returned, in the lists of the turn at every LLM call, and call by call
\* while a round's tools run
ToolMessagesAnswerCallsInLoop ==
    \A t \in Turns :
        /\ Grouped(saved[t])
        /\ pc[t] = "raised" => saved[t] = <<>>
        /\ pc[t] = "llm" => Grouped(turn_msgs[t]) /\ Grouped(messages[t])
        /\ pc[t] = "tools" =>
            /\ tc_i[t] \in 1 .. Len(resp[t].tool_calls)
            /\ \A l \in {turn_msgs[t], messages[t]} :
                LET i == Len(l) - (tc_i[t] - 1)
                IN  /\ i >= 1
                    /\ HasCalls(l[i])
                    /\ Len(l[i].tool_calls) = Len(resp[t].tool_calls)
                    /\ Answers(l, i, tc_i[t] - 1)

\* C1: in every turn, for each assistant message that carries tool calls,
\* the messages appended directly after it are exactly one tool message per
\* tool call, in the order of the calls, each with the call's tool_call_id
\* and tool name; hence what is persisted of the turns, in the sessions and
\* in their files, contains as many tool messages as tool calls were issued
\* by its assistant messages, in the same order.
C1_ToolMessagesAnswerCalls ==
    /\ ToolMessagesAnswerCallsInLoop
    /\ \A k \in Keys :
            /\ Grouped(sessions[k].messages)
            /\ Grouped(_load(disk[safe(k)]).messages)

\* run has ended: it returned its final reply, raised, or replaced the process
Returned(t) == pc[t] \in {"done", "execed"}
LoopEnded(t) == pc[t] \in {"reply", "sleep", "done", "execed"}

LastIsReply(msgs) ==
    msgs # <<>> /\ msgs[Len(msgs)].role = "assistant" /\ ~HasCalls(msgs[Len(msgs)])

\* C2: every run ends with exactly one of: the content of an assistant
\* message without tool calls, the LLM error text, the max-rounds notice.
C2_TurnEndsWithOneOutcome ==
    \A t \in Turns :
        /\ pc[t] # "raised"
        /\ LoopEnded(t) =>
            \/ LastIsReply(saved[t]) /\ final_reply[t] = saved[t][Len(saved[t])].content
            \/ ~LastIsReply(saved[t]) /\ final_reply[t] = MaxRoundsNotice
            \/ ~LastIsReply(saved[t]) /\ final_reply[t] # MaxRoundsNotice
               /\ final_reply[t] # <<>>

\* C3: every turn that starts is persisted and its reply callback is invoked
\* exactly once; no turn finishes without a reply.
C3_TurnPersistedAndReplied ==
    \A t \in Turns :
        pc[t] \in {"done", "execed", "raised"} => saved[t] # <<>> /\ Len(replies[t]) = 1

Persisted(t) ==
    /\ saved[t] # <<>>
    /\ LET lines == disk[safe(chat_id[t])]
           n == Len(saved[t])
       IN  \E off \in 0 .. Len(lines) - n, ts \in 0 .. now :
               SubSeq(lines, off + 1, off + n) = SaveLines(<<>>, saved[t], ts)

\* C5: when the process image is replaced, every turn that has started, of
\* any conversation, has been persisted in full.
C5_NoTurnLostAtRestart == \A t \in Turns : pc[t] = "killed" => Persisted(t)

\* what does hold at a restart: the turn that replaces the process image has
\* been persisted in full; the other turns in flight are abandoned
RestartingTurnPersisted == \A t \in Turns : pc[t] \in {"sleep", "execed"} => Persisted(t)

\* a restart that abandons a turn of another conversation
RestartAbandonsOtherTurn ==
    \E t, u \in Turns :
        /\ pc[t] = "execed"
        /\ pc[u] = "killed"
        /\ chat_id[t] # chat_id[u]
        /\ saved[u] = <<>>

\* C6: turns of one conversation key run one after the other: a turn's prompt
\* is not built before the earlier turn's save_turn has completed.
C6_SameKeyTurnsSequential ==
    \A t, u \in Turns :
        t # u /\ chat_id[t] = chat_id[u] =>
            ~(pc[t] \in {"llm", "tools"} /\ pc[u] \in {"llm", "tools"})

\* C7: a non-empty result of get_history starts with a message of role user.
C7_HistoryStartsWithUser == history # <<>> => history[1].role = "user"

\* C8: for every tool name and every argument mapping, the tool executor
\* returns a result and never raises.
C8_ToolNeverRaises == tool_probe.args.k = "dict" => ~tool_probe.out.raised

\* C9: chat never raises to its caller.
C9_ChatNeverRaises == ~chat_probe.out.raised

\* C10: the arguments of every ToolCall chat produces are a mapping.
C10_ArgumentsAreMappings ==
    \A j \in 1 .. Len(chat_probe.out.tool_calls) :
        chat_probe.out.tool_calls[j].arguments.k = "dict"

\* the messages of a role in a list
NumRole(msgs, role) == Cardinality({j \in 1 .. Len(msgs) : msgs[j].role = role})

\* the last call of provider.chat of turn t returned finish_reason "error"
EndedByError(t) == ~last_resp[t].raised /\ last_resp[t].finish_reason = "error"

\* C11: when the LLM call of a round returns finish_reason "error", the turn
\* makes no further LLM call, its final reply is the error text (the content of
\* the response, "LLM error." when that is empty), and what it persists is the
\* user message followed by the messages of the earlier rounds only: one
\* assistant message per earlier round, each with its tool messages, and none
\* for the failing round.
C11_ErrorEndsTurn ==
    \A t \in Turns :
        EndedByError(t) =>
            /\ pc[t] \notin {"idle", "llm", "tools", "raised"}
            /\ final_reply[t] = IF last_resp[t].content = <<>> THEN <<"LLM error.">>
                                ELSE last_resp[t].content
            /\ saved[t] # <<>>
            /\ saved[t][1] = UserMsg(UserContent(t))
            /\ NumRole(saved[t], "user") = 1
            /\ NumRole(saved[t], "assistant") = llm_calls[t] - 1
            /\ \A j \in 1 .. Len(saved[t]) : saved[t][j].role = "assistant" => HasCalls(saved[t][j])
            /\ Grouped(saved[t])
            /\ replies[t] = <<final_reply[t]>>

\* what does hold: the same of every turn that an error response ended and
\* whose save_turn returned, and a turn whose save_turn raised made no
\* further LLM call either
ErrorEndsTurnThatIsSaved ==
    \A t \in Turns :
        EndedByError(t) =>
            /\ pc[t] \notin {"idle", "llm", "tools"}
            /\ pc[t] # "raised" =>
                /\ final_reply[t] = IF last_resp[t].content = <<>> THEN <<"LLM error.">>
                                    ELSE last_resp[t].content
                /\ saved[t] # <<>>
                /\ saved[t][1] = UserMsg(UserContent(t))
                /\ NumRole(saved[t], "user") = 1
                /\ NumRole(saved[t], "assistant") = llm_calls[t] - 1
                /\ \A j \in 1 .. Len(saved[t]) :
                        saved[t][j].role = "assistant" => HasCalls(saved[t][j])
                /\ Grouped(saved[t])
                /\ replies[t] = <<final_reply[t]>>

\* the assistant requested tool calls in every round up to and including
\* round number max_tool_rounds: the last permitted LLM call has been made and
\* it returned tool calls
ToolsInEveryRound(t) ==
    /\ llm_calls[t] = max_tool_rounds
    /\ ~last_resp[t].raised
    /\ ~EndedByError(t)
    /\ has_tool_calls(last_resp[t])

RoundLimitNotice ==
    \A t \in Turns :
        LoopEnded(t) /\ ~last_resp[t].raised /\ has_tool_calls(last_resp[t]) =>
            /\ llm_calls[t] = max_tool_rounds
            /\ final_reply[t] = MaxRoundsNotice
            /\ replies[t] = <<MaxRoundsNotice>>

\* the places where old occurs in text (the characters before it), and how
\* often it occurs
Places(text, old) ==
    {n \in 0 .. Len(text) - Len(old) : SubSeq(text, n + 1, n + Len(old)) = old}
Occurrences(text, old) == Cardinality(Places(text, old))

\* the items of the `patches` argument of the probed call
PatchesOf(p) == Get(p.args, "patches", JList(<<>>)).l

\* the probed call is a patch_file call with arguments of the declared types
\* (a path, a list of {old, new} with strings) on a file that can be read
\* (PatchCall: and written)
PatchCallRead(p) ==
    /\ p.name = "patch_file"
    /\ p.args.k = "dict"
    /\ Get(p.args, "path", JStr(<<>>)).k = "str"
    /\ Get(p.args, "path", JStr(<<>>)).s # <<>>
    /\ Get(p.args, "patches", JList(<<>>)).k = "list"
    /\ \A j \in 1 .. Len(PatchesOf(p)) :
            LET it == PatchesOf(p)[j] IN it.isdict /\ it.ok = "str" /\ it.nk = "str"
    /\ p.before.exists
    /\ p.env.io # "read_err"

PatchCall(p) == PatchCallRead(p) /\ p.env.io = "ok"

PatchSucceeded(p) ==
    /\ ~p.out.raised
    /\ p.out.result = <<"Patched " \o ToString(Len(PatchesOf(p))) \o " location(s)">>

\* text with the old of each of items[i ..] replaced by its new
RECURSIVE ReplaceEach(_, _, _)
ReplaceEach(text, items, i) ==
    IF i > Len(items) THEN text
    ELSE ReplaceEach(replace(text, items[i].old, items[i].new), items, i + 1)

\* C13: a patch_file call succeeds if and only if the old of every patch
\* occurs exactly once in the content of the file as read from disk, and on
\* success the written content is that content with each old replaced by its
\* new.
C13_PatchesValidatedFirst ==
    PatchCall(tool_probe) =>
        /\ PatchSucceeded(tool_probe) <=>
                \A j \in 1 .. Len(PatchesOf(tool_probe)) :
                    Occurrences(tool_probe.before.text, PatchesOf(tool_probe)[j].old) = 1
        /\ PatchSucceeded(tool_probe) =>
                tool_probe.out.file =
                    File(ReplaceEach(tool_probe.before.text, PatchesOf(tool_probe), 1))

\* the text in which patch i of items is looked up: text with the earlier
\* patches applied, each where its old occurred exactly once
RECURSIVE TextAt(_, _, _)
TextAt(text, items, i) ==
    IF i <= 1 THEN text
    ELSE LET prev == TextAt(text, items, i - 1)
         IN  IF count(prev, items[i - 1].old) = 1
             THEN replace(prev, items[i - 1].old, items[i - 1].new)
             ELSE prev

\* the patches of the probed call that fail: old is absent or occurs more than
\* once when the patch is tried
FailingPatches(p) ==
    {i \in 1 .. Len(PatchesOf(p)) :
        count(TextAt(p.before.text, PatchesOf(p), i), PatchesOf(p)[i].old) # 1}

\* the line that names patch i (counted from 0) and why it failed
FailureLine(p, i) ==
    LET n == count(TextAt(p.before.text, PatchesOf(p), i), PatchesOf(p)[i].old)
    IN  IF n = 0 THEN "Patch " \o ToString(i - 1) \o ": old not found"
        ELSE "Patch " \o ToString(i - 1) \o ": old matches " \o ToString(n)
             \o " times (must be unique)"

\* what does hold when a patch fails in the loop of _patch_file (its old does
\* not occur exactly once, by str.count, in the text as rewritten by the
\* earlier patches): the call leaves the file unchanged and its result is
\* "Patch failed:" followed by one line per failing patch, in order, naming the
\* index of the patch and the cause
FailedPatchLeavesFile ==
    PatchCallRead(tool_probe) /\ FailingPatches(tool_probe) # {} =>
        /\ ~tool_probe.out.raised
        /\ tool_probe.out.file = tool_probe.before
        /\ file = tool_probe.before
        /\ Len(tool_probe.out.result) = 1 + Cardinality(FailingPatches(tool_probe))
        /\ tool_probe.out.result[1] = "Patch failed:"
        /\ \A i \in FailingPatches(tool_probe) :
                tool_probe.out.result[1 + Cardinality({h \in FailingPatches(tool_probe) : h <= i})]
                    = FailureLine(tool_probe, i)

\* the result text names patch i (counted from 0) as failing
NamesPatch(p, i) ==
    \E j \in 2 .. Len(p.out.result), n \in 0 .. Len(p.before.text) + 1 :
        p.out.result[j] \in
            {"Patch " \o ToString(i - 1) \o ": old not found",
             "Patch " \o ToString(i - 1) \o ": old matches " \o ToString(n)
                \o " times (must be unique)"}

\* C14: when any patch of a patch_file call fails (its old is absent from the
\* text the patch is tried on, or occurs in it at more than one place), the
\* file is left unchanged by the whole call and the result text names the
\* index of each failing patch and its cause.
C14_FailedPatchLeavesFile ==
    PatchCallRead(tool_probe) =>
        \A i \in 1 .. Len(PatchesOf(tool_probe)) :
            Occurrences(TextAt(tool_probe.before.text, PatchesOf(tool_probe), i),
                        PatchesOf(tool_probe)[i].old) # 1 =>
                /\ ~tool_probe.out.raised
                /\ file = tool_probe.before
                /\ NamesPatch(tool_probe, i)

\* the probed call is an edit_file call with arguments of the declared types
\* (a path, old and new strings) on a file that can be read and written
EditCall(p) ==
    /\ p.name = "tools.edit_file"
    /\ p.args.k = "dict"
    /\ Get(p.args, "path", JStr(<<>>)).k = "str"
    /\ Get(p.args, "path", JStr(<<>>)).s # <<>>
    /\ Get(p.args, "old", JStr(<<>>)).k = "str"
    /\ Get(p.args, "new", JStr(<<>>)).k = "str"
    /\ p.before.exists
    /\ p.env.io = "ok"

\* text = pre \o old \o post for exactly one pre, and res = pre \o new \o post
ReplacedOnce(text, old, new, res) ==
    LET at == Places(text, old)
    IN  /\ Cardinality(at) = 1
        /\ \A n \in at :
                res = SubSeq(text, 1, n) \o new \o SubSeq(text, n + Len(old) + 1, Len(text))

\* C15: edit_file with {old, new}: if old occurs exactly once in the file,
\* the file afterwards is the original with that one occurrence replaced by
\* new and nothing else changed; if old occurs zero times or more than once
\* the file is unchanged and the result is an error text naming the cause (not
\* found, or the number of matches).
C15_EditReplacesTheOnlyMatch ==
    EditCall(tool_probe) =>
        LET text == tool_probe.before.text
            old == Get(tool_probe.args, "old", JStr(<<>>)).s
            new == Get(tool_probe.args, "new", JStr(<<>>)).s
            at == Places(text, old)
        IN  /\ ~tool_probe.out.raised
            /\ Cardinality(at) = 1 =>
                    /\ tool_probe.out.file.exists
                    /\ ReplacedOnce(text, old, new, tool_probe.out.file.text)
                    /\ file = tool_probe.out.file
                    /\ tool_probe.out.result = <<"Edited <p>">>
            /\ Cardinality(at) = 0 =>
                    /\ file = tool_probe.before
                    /\ tool_probe.out.result = <<"Error: old not found in file">>
            /\ Cardinality(at) > 1 =>
                    /\ file = tool_probe.before
                    /\ tool_probe.out.result =
                            <<"Error: old matches " \o ToString(Cardinality(at))
                              \o " times (must be unique)">>

\* what does hold of edit_file: the same three cases decided by str.count, which
\* counts occurrences that do not overlap, so that an old found at two
\* overlapping places counts as one and its first occurrence is replaced
EditFollowsStrCount ==
    EditCall(tool_probe) =>
        LET text == tool_probe.before.text
            old == Get(tool_probe.args, "old", JStr(<<>>)).s
            new == Get(tool_probe.args, "new", JStr(<<>>)).s
            first == CHOOSE n \in Places(text, old) : \A m \in Places(text, old) : n <= m
        IN  /\ ~tool_probe.out.raised
            /\ file = tool_probe.out.file
            /\ IF count(text, old) = 1
               THEN /\ tool_probe.out.result = <<"Edited <p>">>
                    /\ file.text = SubSeq(text, 1, first) \o new
                                        \o SubSeq(text, first + Len(old) + 1, Len(text))
               ELSE /\ file = tool_probe.before
                    /\ tool_probe.out.result # <<"Edited <p>">>

\* an assistant message that carries tool calls
WithCalls(m) == m.role = "assistant" /\ "tool_calls" \in m.keys /\ m.tool_calls # <<>>

\* an assistant message without tool calls
WithoutCalls(m) == m.role = "assistant" /\ "tool_calls" \notin m.keys

\* msgs is the user message, then groups of one assistant message with tool
\* calls followed by one tool message per call, in the order of the calls, then
\* at most one assistant message without tool calls
TurnShaped(msgs) ==
    /\ Len(msgs) >= 1
    /\ msgs[1].role = "user"
    /\ \A j \in 2 .. Len(msgs) :
        /\ msgs[j].role \in {"assistant", "tool"}
        /\ msgs[j].role = "assistant" => WithCalls(msgs[j]) \/ WithoutCalls(msgs[j])
        /\ WithoutCalls(msgs[j]) => j = Len(msgs)
        /\ WithCalls(msgs[j]) =>
                /\ j + Len(msgs[j].tool_calls) <= Len(msgs)
                /\ \A i \in 1 .. Len(msgs[j].tool_calls) :
                        /\ msgs[j + i].role = "tool"
                        /\ msgs[j + i].tool_call_id = msgs[j].tool_calls[i].id
                /\ j + Len(msgs[j].tool_calls) < Len(msgs) =>
                        msgs[j + Len(msgs[j].tool_calls) + 1].role = "assistant"
        /\ msgs[j].role = "tool" => msgs[j - 1].role \in {"assistant", "tool"} /\ j > 2

\* msgs under the timestamp ts, as messages of a session and as lines of its file
Stamped(msgs, ts) == [j \in 1 .. Len(msgs) |-> [msgs[j] EXCEPT !.keys = @ \cup {"ts"}, !.ts = ts]]
StampedLines(msgs, ts) ==
    [j \in 1 .. Len(msgs) |->
        [type |-> "msg", msg |-> Stamped(msgs, ts)[j], last_consolidated |-> 0]]

\* the step in which run calls save_turn for turn t
Saves(t) == saved[t] = <<>> /\ saved'[t] # <<>>

\* what holds of the turns of the event loop, whose messages can all be
\* written: save_turn appends the turn's messages to the session and to its
\* file in exactly the order the loop produced them, and the turn is the user
\* message, then zero or more groups of one assistant message with tool calls
\* followed by its tool messages, then at most one final assistant message
\* without tool calls, which is absent when the turn ended by an LLM error or
\* by the round limit
SavedTurnInLoopOrder ==
    [][\A t \in Turns : Saves(t) =>
        LET k == chat_id[t]
            n == Len(saved'[t])
            before == IF sessions[k].created THEN sessions[k].messages
                      ELSE _load(disk[safe(k)]).messages
        IN  /\ turn_msgs[t] # <<>> =>
                    SubSeq(saved'[t], 1, Len(turn_msgs[t])) = turn_msgs[t]
            /\ sessions'[k].messages = before \o Stamped(saved'[t], now)
            /\ disk'[safe(k)] = disk[safe(k)] \o StampedLines(saved'[t], now)
            /\ \A f \in DOMAIN disk : f # safe(k) => disk'[f] = disk[f]
            /\ TurnShaped(saved'[t])
            /\ saved'[t][1] = UserMsg(UserContent(t))
            /\ last_resp'[t].finish_reason = "error" \/ has_tool_calls(last_resp'[t]) =>
                    ~WithoutCalls(saved'[t][n])
            /\ WithoutCalls(saved'[t][n]) => saved'[t][n] = Asst(last_resp'[t])
      ]_vars

\* C16: save_turn appends the turn's messages to the session in exactly the
\* order the loop produced them, and every persisted turn has the shape of a
\* turn: what a save_turn adds to the session's sequence is what it adds to
\* the session's file, in the same order, and is the user message, then
\* groups of an assistant message with tool calls followed by its tool
\* messages, then at most one final assistant message without tool calls
C16_SavedTurnWholeAndShaped ==
    [][\A k \in Keys :
        /\ sessions[k].created
        /\ Len(sessions'[k].messages) > Len(sessions[k].messages)
        => LET added == SubSeq(sessions'[k].messages, Len(sessions[k].messages) + 1,
                               Len(sessions'[k].messages))
           IN  /\ disk'[safe(k)] = disk[safe(k)] \o [j \in 1 .. Len(added) |-> MsgLine(added[j])]
               /\ TurnShaped(added)
      ]_vars

\* every line of the file is one that json.loads accepts when read whole
AllJson(lines) == \A i \in 1 .. Len(lines) : lines[i].type # "bad"

\* C17: round trip: after any sequence of save_turn calls on a session, a new
\* Session constructed from the same storage file holds the same messages in
\* the same order as the session in memory, and the same watermark.
C17_ReloadEqualsSession ==
    \A k \in Keys :
        sessions[k].created /\ AllJson(disk[safe(k)]) =>
            /\ _load(disk[safe(k)]).messages = sessions[k].messages
            /\ _load(disk[safe(k)]).last_consolidated = sessions[k].last_consolidated

\* what does hold: the round trip of sessions none of whose messages holds a
\* character that splitlines breaks lines at or one that cannot be written
ReloadEqualsSessionWithoutLineBreaks ==
    \A k \in Keys :
        /\ sessions[k].created
        /\ AllJson(disk[safe(k)])
        /\ \A i \in 1 .. Len(disk[safe(k)]) : ~Rejected(disk[safe(k)][i])
        /\ \A i \in 1 .. Len(sessions[k].messages) : LineEncodable(sessions[k].messages[i])
        => /\ _load(disk[safe(k)]).messages = sessions[k].messages
           /\ _load(disk[safe(k)]).last_consolidated = sessions[k].last_consolidated

\* the fields get_history may return, and a message reduced to them
ReplayFields == {"role", "content", "tool_calls", "tool_call_id", "name"}
Reduced(m) == [m EXCEPT !.keys = @ \cap ReplayFields, !.ts = 0]

\* the messages of sess from the watermark onward
Suffix(sess) ==
    [j \in 1 .. Len(sess.messages) - sess.last_consolidated |->
        sess.messages[sess.last_consolidated + j]]

\* the positions of msgs at or after its first message of role user
FromFirstUser(msgs) ==
    {j \in 1 .. Len(msgs) : \E h \in 1 .. j : msgs[h].role = "user"}

\* the messages of msgs at the positions `at` (a final segment), reduced
ReducedAt(msgs, at) ==
    [j \in 1 .. Cardinality(at) |-> Reduced(msgs[Len(msgs) - Cardinality(at) + j])]

\* C18: get_history returns exactly the messages from index last_consolidated
\* onward, with every message before the first user-role message of that
\* suffix dropped, each remaining message reduced to the fields role, content,
\* tool_calls, tool_call_id and name, in the original order; it leaves the
\* session's messages and watermark unchanged.
C18_HistoryIsTrimmedSuffix ==
    [][history' # history =>
        /\ sessions' = sessions
        /\ disk' = disk
        /\ \E k \in Keys :
            /\ sessions[k].created
            /\ history' = ReducedAt(Suffix(sessions[k]), FromFirstUser(Suffix(sessions[k])))
      ]_vars

\* what does hold of get_history: the same, except that a suffix without any
\* user message is returned whole
HistoryIsSuffixTrimmedIfUser ==
    [][history' # history =>
        /\ sessions' = sessions
        /\ disk' = disk
        /\ \E k \in Keys :
            /\ sessions[k].created
            /\ LET suf == Suffix(sessions[k])
                   at == IF FromFirstUser(suf) = {} THEN 1 .. Len(suf) ELSE FromFirstUser(suf)
               IN  history' = ReducedAt(suf, at)
      ]_vars

\* every tool message of msgs has before it an assistant message whose
\* tool_calls holds a call with the tool message's tool_call_id
ToolsFollowCalls(msgs) ==
    \A j \in 1 .. Len(msgs) :
        msgs[j].role = "tool" =>
            \E h \in 1 .. j - 1 :
                /\ WithCalls(msgs[h])
                /\ \E i \in 1 .. Len(msgs[h].tool_calls) :
                        msgs[h].tool_calls[i].id = msgs[j].tool_call_id

\* the messages a new Session reads from the file of key k
FileMessages(k) == _load(disk[safe(k)]).messages

\* C19: after any sequence of turns on a conversation (including turns ended
\* by an LLM error or by the round limit), every tool-role message in the
\* session's persisted sequence is preceded in that sequence by an assistant
\* message whose tool_calls contains the tool message's tool_call_id.
C19_ToolMessageHasPriorCall ==
    \A k \in Keys :
        /\ ToolsFollowCalls(sessions[k].messages)
        /\ ToolsFollowCalls(FileMessages(k))
        /\ \A i \in 1 .. Len(disk[safe(k)]) : disk[safe(k)][i].type = "msg"
        /\ ToolsFollowCalls([i \in 1 .. Len(disk[safe(k)]) |-> disk[safe(k)][i].msg])

\* C19 witness: a conversation that holds a turn ended by the round limit (its
\* last message is a tool message) and a turn ended by an LLM error (the user
\* message alone)
C19_Witness ==
    \E t, u \in Turns :
        /\ t # u
        /\ chat_id[t] = chat_id[u]
        /\ saved[t] # <<>> /\ saved[t][Len(saved[t])].role = "tool"
        /\ Len(saved[u]) = 1 /\ last_resp[u].finish_reason = "error"
        /\ Persisted(t)
        /\ Persisted(u)
        /\ \E j \in 1 .. Len(sessions[chat_id[t]].messages) :
                sessions[chat_id[t]].messages[j].role = "tool"

\* the messages of turn t that were saved hold the tool message of a
\* restart_self call
RestartRecorded(t) ==
    \E j \in 1 .. Len(saved[t]) : saved[t][j].role = "tool" /\ saved[t][j].name = "restart_self"

\* C20: once a tool call of a turn has signalled restart, the remaining tool
\* calls of the round and the later rounds of the turn are still executed and
\* their messages recorded; the process is not replaced before the loop has
\* finished and the turn has been saved: the turn is either still in its loop
\* or has been saved whole.
C20_RestartNeverInterruptsTurn ==
    \A t \in Turns :
        pending_restart[t] =>
            \/ pc[t] \in {"llm", "tools"}
            \/ /\ saved[t] # <<>>
               /\ TurnShaped(saved[t])
               /\ RestartRecorded(t)

\* what does hold: a turn that has signalled restart and is neither aborted
\* by an exception of a later call nor abandoned at the execv of another turn
\* goes on with its loop and is saved whole before it replaces the process
RestartDeferredUnlessAborted ==
    \A t \in Turns :
        pending_restart[t] /\ pc[t] \notin {"raised", "killed"} =>
            \/ pc[t] \in {"llm", "tools"}
            \/ /\ saved[t] # <<>>
               /\ TurnShaped(saved[t])
               /\ RestartRecorded(t)

\* turn t is in the loop of run
InLoop(t) == pc[t] \in {"llm", "tools"}

\* C21: assuming every LLM call and every tool call returns, each turn
\* terminates (its loop is left), and the number of LLM calls made in one turn
\* never exceeds max_tool_rounds.
C21_TurnTerminatesWithinRounds ==
    /\ [](\A t \in Turns : llm_calls[t] <= max_tool_rounds)
    /\ \A t \in Turns : InLoop(t) ~> ~InLoop(t)

\* C21 witness: a turn that made max_tool_rounds LLM calls and has left its
\* loop at the round limit
C21_Witness ==
    \E t \in Turns :
        /\ max_tool_rounds >= 1
        /\ llm_calls[t] = max_tool_rounds
        /\ ~InLoop(t)
        /\ final_reply[t] = MaxRoundsNotice

\* the last call made on the memory blob
LastCall == mem_log.calls[Len(mem_log.calls)]

\* the blocks of a blob: its text split at the blank lines, whitespace at
\* its two ends left out
RECURSIVE Blocks(_)
Blocks(text) ==
    LET t == strip(text)
        cut == {n \in 1 .. Len(t) - 1 : t[n] = "\n" /\ t[n + 1] = "\n"}
    IN  IF t = <<>> THEN <<>>
        ELSE IF cut = {} THEN <<t>>
        ELSE LET n == CHOOSE m \in cut : \A h \in cut : m <= h
             IN  <<SubSeq(t, 1, n - 1)>> \o Blocks(SubSeq(t, n + 2, Len(t)))

\* the trimmed texts of the append calls in calls that are not blank, in
\* call order
RECURSIVE AppendedBlocks(_)
AppendedBlocks(calls) ==
    IF calls = <<>> THEN <<>>
    ELSE LET c == calls[Len(calls)]
             rest == AppendedBlocks(SubSeq(calls, 1, Len(calls) - 1))
         IN  IF c.op = "append" /\ strip(c.arg.s) # <<>> THEN Append(rest, strip(c.arg.s))
             ELSE rest

\* every call of the log is a call of MemoryStore.append
OnlyAppends == \A i \in 1 .. Len(mem_log.calls) : mem_log.calls[i].op = "append"

\* C22: MemoryStore.append(text): if the store is empty or missing the blob
\* becomes the trimmed text; otherwise it becomes the existing content
\* (trailing whitespace removed), one blank line, then the trimmed text; after
\* any sequence of appends the blob contains every appended block in append
\* order, consecutive blocks separated by exactly one blank line. (The blob
\* is compared up to the whitespace at its end.)
C22_AppendKeepsBlocksInOrder ==
    mem_log.calls # <<>> /\ OnlyAppends =>
        /\ LET existing == rstrip(MemoryLoad(LastCall.before))
               text == strip(LastCall.arg.s)
           IN  rstrip(MemoryLoad(memory)) =
                    rstrip(IF existing = <<>> THEN text ELSE existing \o <<"\n", "\n">> \o text)
        /\ Blocks(MemoryLoad(memory)) =
                Blocks(MemoryLoad(mem_log.init)) \o AppendedBlocks(mem_log.calls)

\* what does hold: the same, for appends of texts that utf-8 can encode
AppendKeepsEncodableBlocks ==
    /\ mem_log.calls # <<>>
    /\ OnlyAppends
    /\ \A i \in 1 .. Len(mem_log.calls) : Encodable(mem_log.calls[i].arg.s)
    => /\ ~LastCall.raised
       /\ LET existing == rstrip(MemoryLoad(LastCall.before))
              text == strip(LastCall.arg.s)
          IN  MemoryLoad(memory) =
                (IF existing = <<>> THEN text ELSE existing \o <<"\n", "\n">> \o text)
                \o <<"\n">>
       /\ Blocks(MemoryLoad(memory)) =
                Blocks(MemoryLoad(mem_log.init)) \o AppendedBlocks(mem_log.calls)

\* the last call on the blob is a save_memory call whose content is a text
\* or is missing
SaveMemoryCall ==
    /\ mem_log.calls # <<>>
    /\ LastCall.op = "save_memory"
    /\ LastCall.arg.k = "dict"
    /\ Get(LastCall.arg, "content", JStr(<<>>)).k = "str"

\* the content of that call, trimmed ("" when it is missing)
SavedContent == strip(Get(LastCall.arg, "content", JStr(<<>>)).s)

\* C23: a save_memory tool call whose content is missing, empty or only
\* whitespace leaves the memory blob unchanged; a call with other content
\* appends exactly the trimmed content.
C23_SaveMemoryAppendsTrimmed ==
    SaveMemoryCall =>
        IF SavedContent = <<>>
        THEN memory = LastCall.before
        ELSE LET existing == rstrip(MemoryLoad(LastCall.before))
             IN  /\ MemoryLoad(memory) =
                        (IF existing = <<>> THEN SavedContent
                         ELSE existing \o <<"\n", "\n">> \o SavedContent) \o <<"\n">>
                 /\ Blocks(MemoryLoad(memory)) =
                        Blocks(MemoryLoad(LastCall.before)) \o <<SavedContent>>

\* what does hold: the same for content that utf-8 can encode
SaveMemoryAppendsEncodable ==
    SaveMemoryCall /\ Encodable(SavedContent) =>
        /\ ~LastCall.raised
        /\ IF SavedContent = <<>>
           THEN memory = LastCall.before
           ELSE LET existing == rstrip(MemoryLoad(LastCall.before))
                IN  /\ MemoryLoad(memory) =
                            (IF existing = <<>> THEN SavedContent
                             ELSE existing \o <<"\n", "\n">> \o SavedContent) \o <<"\n">>
                    /\ Blocks(MemoryLoad(memory)) =
                            Blocks(MemoryLoad(LastCall.before)) \o <<SavedContent>>

\* a is an initial segment of b
IsPrefix(a, b) == Len(a) <= Len(b) /\ SubSeq(b, 1, Len(a)) = a

\* C24: session history is append-only: over any sequence of save_turn,
\* get_history and SessionManager.get operations, every message persisted
\* before a step is still present after it, unmodified and at the same
\* position, in the in-memory sequence and in the storage file; the length of
\* the sequence never decreases.
C24_SessionAppendOnly ==
    [][\A k \in Keys :
        /\ sessions[k].created =>
                /\ sessions'[k].created
                /\ IsPrefix(sessions[k].messages, sessions'[k].messages)
        /\ IsPrefix(disk[safe(k)], disk'[safe(k)])
      ]_vars

\* C24 witness: a session loaded from a file that held messages, then two
\* turns saved and the history read
C24_Witness ==
    \E k \in Keys :
        /\ sessions[k].created
        /\ now = 3
        /\ Len(sessions[k].messages) >= 4
        /\ Len(disk[safe(k)]) > Len(sessions[k].messages)
        /\ history # <<>>

\* C25: SessionManager.get is idempotent per key: within one process every
\* call with the same key returns the same Session, created and loaded from
\* storage only on the first call, so messages saved through one returned
\* handle are visible through any later get of that key.
C25_GetReturnsSameSession ==
    [][\A k \in Keys :
        handles'[k] # handles[k] =>
            /\ \A i, j \in 1 .. Len(handles'[k]) : handles'[k][i].obj = handles'[k][j].obj
            /\ handles[k] # <<>> => sessions'[k] = sessions[k]
            /\ handles[k] = <<>> => sessions'[k] = _load(disk[safe(k)])
            /\ sessions'[k].created
            /\ disk' = disk
      ]_vars

\* C25 witness: two gets of one key with a save_turn between them, the second
\* get returning the session that holds the saved messages
C25_Witness ==
    \E k \in Keys :
        /\ Len(handles[k]) = 2
        /\ ~handles[k][1].after_save
        /\ handles[k][2].after_save
        /\ handles[k][1].obj = handles[k][2].obj
        /\ sessions[k].messages # <<>>
        /\ \A q \in Keys \ {k} : ~sessions[q].created

\* the list of a first LLM call up to the end of the session history: the
\* system message and the history, without the runtime context and the
\* current user message
UpToHistory(list) == SubSeq(list, 1, Len(list) - 2)

\* turn t has made its LLM calls and turn u, of the same conversation, makes
\* its first one in this step, and u is the turn after t: since the first call
\* of t the history has grown by as many messages as t saved, so that no
\* other turn of the conversation has saved in between
NextTurn(t, u) ==
    /\ t # u
    /\ chat_id[t] = chat_id[u]
    /\ sent[t].n > 0
    /\ ~InLoop(t)
    /\ sent[u].n = 0
    /\ sent'[u].n = 1
    /\ Len(UpToHistory(sent'[u].first)) = Len(UpToHistory(sent[t].first)) + Len(saved[t])

LlmCallsWithinRounds == \A t \in Turns : llm_calls[t] <= max_tool_rounds

\* C27: each message id causes at most one call of the message handler, over
\* any sequence of deliveries, and a message sent by a bot or a group message
\* that does not mention the bot causes none
C27_HandlerOncePerMessage ==
    \A m \in Mids :
        /\ handled[m] <= 1
        /\ (FromBot(m) \/ Unmentioned(m)) => handled[m] = 0 /\ inflight[m] = 0

\* what holds of the dedup table: at most one call per message id as long as
\* no more than DedupCap message ids were delivered, and never a call for a
\* message of a bot or a group message without the mention
HandlerOnceWithinDedupCap ==
    /\ Cardinality({delivered[i] : i \in 1..Len(delivered)}) <= DedupCap
            => \A m \in Mids : handled[m] + inflight[m] <= 1
    /\ \A m \in Mids :
            (FromBot(m) \/ Unmentioned(m)) => handled[m] = 0 /\ inflight[m] = 0

\* the step makes an LLM call of turn t
CallsLLM(t) == llm_calls'[t] = llm_calls[t] + 1

\* C28: at every LLM call of a turn the message list is [system message,
\* session history, runtime context, current user message] followed by the
\* assistant and tool messages of the turn so far; it extends the list of the
\* turn's previous call; and the two cache indices designate the system
\* message and the runtime-context message
C28_CallListLaidOutAndGrowing ==
    [][\A t \in Turns : CallsLLM(t) =>
        LET list == messages'[t]
            ci == cache_indices'[t]
            so_far == Tail(turn_msgs'[t])
            hist == SubSeq(list, 2, Len(list) - 2 - Len(so_far))
        IN  /\ sent'[t].last = list
            /\ \E time \in 0..now' :
                    list = <<list[1]>> \o hist
                           \o <<RuntimeContext(chat_id[t], time), UserMsg(UserContent(t))>>
                           \o so_far
            /\ list[1].role = "system"
            /\ \A i \in 1..Len(so_far) : so_far[i].role \in {"assistant", "tool"}
            /\ IF llm_calls[t] = 0
               THEN /\ list[1] = SystemMsg(_build_system(memory))
                    /\ hist = get_history(sessions'[chat_id[t]])
                    /\ so_far = <<>>
               ELSE /\ IsPrefix(sent[t].last, list)
                    /\ Len(list) > Len(sent[t].last)
            /\ ci = <<0, 1 + Len(hist)>>
            /\ list[ci[1] + 1].role = "system"
            /\ \E time \in 0..now' : list[ci[2] + 1] = RuntimeContext(chat_id[t], time)
    ]_vars

\* C28 witness: a turn with history in its session has made its second LLM
\* call, with the assistant and tool messages of its first round in the list
C28_Witness ==
    \E t \in Turns :
        /\ pc[t] = "llm"
        /\ sent[t].n = 2
        /\ cache_indices[t][2] > 1
        /\ Len(messages[t]) > Len(sent[t].first) + 1
        /\ sent[t].last = messages[t]

\* the types and texts a message carries, whatever the form of its content
Carried(v) ==
    IF v.ctype = "list" THEN [i \in 1..Len(v.parts) |-> <<v.parts[i].type, v.parts[i].text>>]
    ELSE <<<<"text", v.text>>>>

\* C29: chat and apply_cache never modify the caller's message list or its
\* message objects: after any number of calls the messages the caller holds
\* are what they were, carry no cache annotation, and each message of a
\* request has the role and the text of the caller's message at its place
C29_ChatLeavesCallerMessages ==
    LET p == cache_probe
    IN  /\ DerefAll(p.heap, p.messages) = p.before
        /\ \A i \in 1..Len(p.messages) :
                LET msg == p.heap[p.messages[i]]
                IN  /\ ~msg.cache_control
                    /\ \A j \in 1..Len(msg.parts) : ~p.heap[msg.parts[j]].cache_control
        /\ Len(p.request) <= Len(p.before)
        /\ \A i \in 1..Len(p.request) :
                /\ p.request[i].role = p.before[i].role
                /\ Carried(p.request[i]) = Carried(p.before[i])

\* C29 witness: after two calls and an append between them, the last request
\* carries a mark on a message whose content was a str and on one whose
\* content was a list of parts
C29_Witness ==
    LET p == cache_probe
        Marked(i) == \E j \in 1..Len(p.request[i].parts) : p.request[i].parts[j].cache_control
    IN  /\ p.calls = 2
        /\ p.appended >= 1
        /\ \E i \in 1..Len(p.request) : Marked(i) /\ p.before[i].ctype = "str"
        /\ \E i \in 1..Len(p.request) : Marked(i) /\ p.before[i].ctype = "list"

\* a tool call of turn t that was executed was named restart_self
RanRestart(t) == \E j \in 1..Len(sent[t].ran) : sent[t].ran[j] = "restart_self"

\* turn t replaced the process image
Replaced(t) == \E j \in 1..Len(exec_log) : exec_log[j] = t

\* C30: the process image is replaced at the end of a turn if and only if a
\* tool call executed in the turn was named restart_self: the restart flag is
\* set by restart_self and by nothing else, a turn that replaces the process
\* ran restart_self, and a turn that ran restart_self does not end without
\* replacing the process
C30_RestartIffRestartSelf ==
    \A t \in Turns :
        /\ pending_restart[t] => RanRestart(t)
        /\ Replaced(t) => RanRestart(t)
        /\ pc[t] \in {"done", "raised"} => ~RanRestart(t)

\* what does hold: only restart_self sets the flag, only a turn that ran it
\* replaces the process, and a turn that ran it and returns has replaced it
RestartOnlyByRestartSelf ==
    \A t \in Turns :
        /\ pending_restart[t] => RanRestart(t)
        /\ Replaced(t) => RanRestart(t)
        /\ pc[t] = "done" => ~RanRestart(t)

\* ---------------------------------------------------------------- C31
\* the entries of seq that carry the timestamp ts
AtTime(seq, ts) == {j \in 1 .. Len(seq) : seq[j].ts = ts}

\* block is seq from off + 1 on, and its places are off + 1 .. off + Len(block)
BlockAt(seq, off, block) ==
    /\ off + Len(block) <= Len(seq)
    /\ SubSeq(seq, off + 1, off + Len(block)) = block

\* C31: when several turns run concurrently in the event loop (same or
\* different keys), the messages of one saved turn occupy one contiguous block
\* of its session's sequence and of its storage file, in the order produced,
\* and the messages of two turns never interleave: the block is the turn's
\* messages under the one timestamp of its save_turn, and no message outside
\* the block carries that timestamp.
C31_TurnsNeverInterleave ==
    \A t \in Turns :
        saved[t] # <<>> =>
            LET k == chat_id[t]
                lines == disk[safe(k)]
                n == Len(saved[t])
            IN  \E ts \in 0 .. now - 1 : \E off \in 0 .. Len(lines) - n :
                    /\ BlockAt(lines, off, StampedLines(saved[t], ts))
                    /\ AtTime([j \in 1 .. Len(lines) |-> lines[j].msg], ts) = off + 1 .. off + n
                    /\ sessions[k].created =>
                            \E at \in 0 .. Len(sessions[k].messages) - n :
                                /\ BlockAt(sessions[k].messages, at, Stamped(saved[t], ts))
                                /\ AtTime(sessions[k].messages, ts) = at + 1 .. at + n

\* C31 witness: two turns of one conversation ran concurrently (the first LLM
\* call of each was made with an empty history, before the other was saved),
\* each with a tool round, and both are saved in the one session and file
C31_Witness ==
    \E t, u \in Turns :
        /\ t # u
        /\ chat_id[t] = chat_id[u]
        /\ sent[t].n >= 2 /\ Len(UpToHistory(sent[t].first)) = 1
        /\ sent[u].n >= 2 /\ Len(UpToHistory(sent[u].first)) = 1
        /\ Len(saved[t]) >= 3
        /\ Len(saved[u]) >= 3
        /\ sessions[chat_id[t]].created
        /\ Len(sessions[chat_id[t]].messages) = Len(saved[t]) + Len(saved[u])
        /\ Len(disk[safe(chat_id[t])]) = Len(saved[t]) + Len(saved[u])

\* ---------------------------------------------------------------- C32
\* turn t runs one tool call in this step
RunsCall(t) == pc[t] = "tools" /\ Len(sent'[t].ran) = Len(sent[t].ran) + 1

\* the tool call that turn t runs next
CallOf(t) == resp[t].tool_calls[tc_i[t]]

\* the trimmed content of a save_memory call ("" when it saves nothing)
SavedBy(tc) ==
    IF tc.name = "save_memory" /\ tc.arguments.k = "dict"
       /\ Get(tc.arguments, "content", JStr(<<>>)).k = "str"
    THEN strip(Get(tc.arguments, "content", JStr(<<>>)).s)
    ELSE <<>>

\* the steps of concurrently running turns keep the blob: a save_memory call
\* with content adds its trimmed content as the last block after the blocks
\* the blob held, and every other step leaves the blob as it is
AppendsKept(contents) ==
    /\ \A t \in Turns :
            RunsCall(t) /\ SavedBy(CallOf(t)) \in contents =>
                Blocks(MemoryLoad(memory')) =
                    Blocks(MemoryLoad(memory)) \o <<SavedBy(CallOf(t))>>
    /\ (\A t \in Turns : ~(RunsCall(t) /\ SavedBy(CallOf(t)) # <<>>)) => memory' = memory

\* C32: save_memory appends issued by concurrently running turns are never
\* lost: after any interleaving of turns the memory blob contains every
\* non-empty appended content, in the order the appends executed (every
\* append adds its content after all that the blob held, and no other step
\* of a turn changes the blob).
C32_ConcurrentAppendsKept ==
    [][AppendsKept({x \in Seq({"a", "b", " ", "\n", "<U+D800>"}) : x # <<>>})]_vars

\* what does hold: the same for the appends of content that utf-8 can
\* encode, which no interleaving of turns loses or reorders
ConcurrentEncodableAppendsKept ==
    [][AppendsKept({x \in Seq({"a", "b", " ", "\n"}) : x # <<>>}) \/
       \E t \in Turns : RunsCall(t) /\ ~Encodable(SavedBy(CallOf(t)))]_vars

\* ---------------------------------------------------------------- C33
\* the history of key q: that of its registered session, and that of the
\* session a process started now would construct for it
HistoryInProcess(ss, d, q) ==
    get_history(SessionManagerGet(ss[q], d[safe(q)]).session)
HistoryReloaded(d, q) == get_history(_load(d[safe(q)]))

\* save_turn runs on the session of key k in this step
SavesOn(k) == now' = now + 1 /\ sessions'[k] # sessions[k]

\* a save_turn on key k leaves the history of key q, in the running process
\* and after the sessions are reloaded from storage
LeavesHistory(k, q) ==
    SavesOn(k) =>
        /\ HistoryInProcess(sessions', disk', q) = HistoryInProcess(sessions, disk, q)
        /\ HistoryReloaded(disk', q) = HistoryReloaded(disk, q)

\* C33: sessions of distinct conversation keys are isolated: for every pair
\* of distinct keys, SessionManager.get gives them distinct storage files,
\* and a save_turn on one key never changes the history of the other, neither
\* in the running process nor after the sessions are reloaded from storage
\* following a restart.
C33_DistinctKeysIsolated ==
    [][\A k, q \in AllKeys :
        k # q =>
            /\ sessions'[k].created /\ sessions'[q].created => safe(k) # safe(q)
            /\ LeavesHistory(k, q)
      ]_vars

\* what does hold: the same for the keys that differ after ":" and "/" are
\* replaced by "_"
KeysOfDistinctFilesIsolated ==
    [][\A k, q \in AllKeys : safe(k) # safe(q) => LeavesHistory(k, q)]_vars

====
